---------------------------- MODULE Spec2Model ----------------------------
(***************************************************************************)
(* Model of the text segmentation engine of src/tools/src/bin/chunk.rs     *)
(* (struct TextChunker).  A text is a sequence of one-character strings.   *)
(* One call of a segmenter is a run of the state machine: the input and    *)
(* the parameters are drawn in the initial state, every loop iteration or  *)
(* recursive call of the segmenter is one step, and pc = "done" when the   *)
(* segmenter has returned its chunks.                                      *)
(***************************************************************************)
EXTENDS Integers, Sequences, FiniteSets, TLC

VARIABLES
    strategy,   \* the ChunkStrategy the call dispatches on
    text,       \* the input text
    cfg,        \* the parameters the segmenter receives
    pc,         \* position of the call inside the segmenter
    loc,        \* the segmenter's local variables
    chunks      \* the Vec<Chunk> being built (the result when pc = "done")

vars == <<strategy, text, cfg, pc, loc, chunks>>

\* the locals of a segmenter that has not been entered yet
NotEntered == <<>>

(***************************************************************************)
(* Option<T>: None is the empty tuple, Some(x) the one-element tuple.      *)
(***************************************************************************)
None == <<>>

Some(x) == <<x>>

Min(a, b) == IF a <= b THEN a ELSE b

SeqsUpTo(S, n) == UNION {[1..k -> S] : k \in 0..n}

RECURSIVE SumSeq(_)
SumSeq(s) == IF s = <<>> THEN 0 ELSE Head(s) + SumSeq(Tail(s))

RECURSIVE Flatten(_)
Flatten(ss) == IF ss = <<>> THEN <<>> ELSE Head(ss) \o Flatten(Tail(ss))

RECURSIVE JoinWith(_, _)
JoinWith(ss, sep) ==
    IF ss = <<>> THEN <<>>
    ELSE IF Len(ss) = 1 THEN Head(ss)
    ELSE Head(ss) \o sep \o JoinWith(Tail(ss), sep)

(***************************************************************************)
(* Character classes of the characters the inputs are drawn from.          *)
(***************************************************************************)
IsUpper(c) == c \in {"A", "B", "C"}

LowerLetters ==
    {"a", "b", "c", "d", "e", "f", "g", "h", "i", "j", "k", "l", "m",
     "n", "o", "p", "q", "r", "s", "t", "u", "v", "w", "x", "y", "z"}

IsLower(c) == c \in LowerLetters

IsATerm(c) == c = "."

IsSTerm(c) == c \in {"!", "?"}

IsSATerm(c) == IsATerm(c) \/ IsSTerm(c)

IsSp(c) == c = " "

IsParaSep(c) == c = "\n"

IsWhitespace(c) == c \in {" ", "\n"}

IsAlphanumeric(c) == IsUpper(c) \/ IsLower(c)

IsAsciiPunctuation(c) == c \in {".", "!", "?", "#", "|", "-", ":", ","}

\* str::len(): every character the model draws is one byte of UTF-8
ByteLen(s) == Len(s)

\* str::chars().count()
CharCount(s) == Len(s)

RECURSIVE TrimStart(_)
TrimStart(s) ==
    IF s # <<>> /\ IsWhitespace(Head(s)) THEN TrimStart(Tail(s)) ELSE s

RECURSIVE TrimEnd(_)
TrimEnd(s) ==
    IF s # <<>> /\ IsWhitespace(s[Len(s)])
    THEN TrimEnd(SubSeq(s, 1, Len(s) - 1))
    ELSE s

Trim(s) == TrimStart(TrimEnd(s))

(***************************************************************************)
(* unicode_segmentation's unicode_sentences(): the text is cut at the      *)
(* sentence boundaries of UAX #29 (rules SB4 to SB11, on the character     *)
(* classes above) and the pieces holding no alphanumeric character are     *)
(* dropped.                                                                *)
(***************************************************************************)
IsNumeric(c) == c \in {"1", "2"}

IsClose(c) == c \in {")"}

IsSContinue(c) == c \in {",", "-", ":"}

RECURSIVE SkipSpBack(_, _)
SkipSpBack(t, i) == IF i >= 1 /\ IsSp(t[i]) THEN SkipSpBack(t, i - 1) ELSE i

RECURSIVE SkipCloseBack(_, _)
SkipCloseBack(t, i) ==
    IF i >= 1 /\ IsClose(t[i]) THEN SkipCloseBack(t, i - 1) ELSE i

\* the position of the SATerm when t[1..i] ends with SATerm Close* Sp*, else 0
AfterTermCloseSp(t, i) ==
    LET j == SkipCloseBack(t, SkipSpBack(t, i))
    IN  IF j >= 1 /\ IsSATerm(t[j]) THEN j ELSE 0

\* the position of the SATerm when t[1..i] ends with SATerm Close*, else 0
AfterTermClose(t, i) ==
    LET j == SkipCloseBack(t, i)
    IN  IF j >= 1 /\ IsSATerm(t[j]) THEN j ELSE 0

\* SB8's right context from position k: ( not(letter | ParaSep | SATerm) )* Lower
RECURSIVE LowerFollows(_, _)
LowerFollows(t, k) ==
    IF k > Len(t) THEN FALSE
    ELSE IF IsLower(t[k]) THEN TRUE
    ELSE IF IsUpper(t[k]) \/ IsParaSep(t[k]) \/ IsSATerm(t[k]) THEN FALSE
    ELSE LowerFollows(t, k + 1)

\* whether a sentence boundary lies between t[i] and t[i+1], 1 <= i < Len(t)
SentenceBreakAfter(t, i) ==
    LET next == t[i + 1]
        j == AfterTermCloseSp(t, i)
        jc == AfterTermClose(t, i)
    IN  IF IsParaSep(t[i]) THEN TRUE                                  \* SB4
        ELSE IF IsATerm(t[i]) /\ IsNumeric(next) THEN FALSE            \* SB6
        ELSE IF /\ IsATerm(t[i]) /\ i > 1
                /\ (IsUpper(t[i - 1]) \/ IsLower(t[i - 1]))
                /\ IsUpper(next) THEN FALSE                            \* SB7
        ELSE IF j > 0 /\ IsATerm(t[j]) /\ LowerFollows(t, i + 1)
             THEN FALSE                                                \* SB8
        ELSE IF j > 0 /\ (IsSContinue(next) \/ IsSATerm(next))
             THEN FALSE                                                \* SB8a
        ELSE IF jc > 0 /\ (IsClose(next) \/ IsSp(next) \/ IsParaSep(next))
             THEN FALSE                                                \* SB9
        ELSE IF j > 0 /\ (IsSp(next) \/ IsParaSep(next)) THEN FALSE    \* SB10
        ELSE j > 0                                                     \* SB11

\* the end of the sentence that starts at position from
RECURSIVE SentenceEnd(_, _)
SentenceEnd(t, i) ==
    IF i >= Len(t) \/ SentenceBreakAfter(t, i) THEN i ELSE SentenceEnd(t, i + 1)

\* split_sentence_bounds(): every piece, in order
RECURSIVE SentenceBoundsFrom(_, _)
SentenceBoundsFrom(t, from) ==
    IF from > Len(t) THEN <<>>
    ELSE LET e == SentenceEnd(t, from)
         IN  <<SubSeq(t, from, e)>> \o SentenceBoundsFrom(t, e + 1)

HasAlphanumeric(s) == \E i \in 1..Len(s) : IsAlphanumeric(s[i]) \/ IsNumeric(s[i])

UnicodeSentences(t) == SelectSeq(SentenceBoundsFrom(t, 1), HasAlphanumeric)

(***************************************************************************)
(* str::split_whitespace(), str::lines() and str::split("\n\n")            *)
(***************************************************************************)
RECURSIVE WordEnd(_, _)
WordEnd(t, i) ==
    IF i < Len(t) /\ ~IsWhitespace(t[i + 1]) THEN WordEnd(t, i + 1) ELSE i

RECURSIVE SplitWhitespaceFrom(_, _)
SplitWhitespaceFrom(t, from) ==
    IF from > Len(t) THEN <<>>
    ELSE IF IsWhitespace(t[from]) THEN SplitWhitespaceFrom(t, from + 1)
    ELSE LET e == WordEnd(t, from)
         IN  <<SubSeq(t, from, e)>> \o SplitWhitespaceFrom(t, e + 1)

SplitWhitespace(t) == SplitWhitespaceFrom(t, 1)

\* the position of the first "\n" at or after from, Len(t) + 1 when there is none
RECURSIVE NextNewline(_, _)
NextNewline(t, from) ==
    IF from > Len(t) \/ t[from] = "\n" THEN from ELSE NextNewline(t, from + 1)

\* lines(): the pieces between newlines; a final newline opens no empty line
RECURSIVE LinesFrom(_, _)
LinesFrom(t, from) ==
    IF from > Len(t) THEN <<>>
    ELSE LET e == NextNewline(t, from)
         IN  <<SubSeq(t, from, e - 1)>> \o LinesFrom(t, e + 1)

Lines(t) == LinesFrom(t, 1)

\* the position of the first "\n\n" at or after from, 0 when there is none
RECURSIVE NextBlankLine(_, _)
NextBlankLine(t, from) ==
    IF from + 1 > Len(t) THEN 0
    ELSE IF t[from] = "\n" /\ t[from + 1] = "\n" THEN from
    ELSE NextBlankLine(t, from + 1)

\* split("\n\n"): at least one piece, the separators matched left to right
RECURSIVE SplitParagraphsFrom(_, _)
SplitParagraphsFrom(t, from) ==
    LET e == NextBlankLine(t, from)
    IN  IF e = 0 THEN <<SubSeq(t, from, Len(t))>>
        ELSE <<SubSeq(t, from, e - 1)>> \o SplitParagraphsFrom(t, e + 2)

SplitParagraphs(t) == SplitParagraphsFrom(t, 1)

(***************************************************************************)
(* struct Chunk                                                            *)
(***************************************************************************)
Chunk(content, start, end, index, size, overlap, strat, similarity, embedding, source) ==
    [content |-> content, start |-> start, end |-> end, index |-> index,
     size |-> size, overlap |-> overlap, strategy |-> strat,
     similarity |-> similarity, embedding |-> embedding, source |-> source]


(***************************************************************************)
(* Bounds of the inputs.                                                   *)
(***************************************************************************)
MaxFixedLen == 4

MaxFixedSize == 3

MaxFixedOverlap == 3

MaxProseLen == 4

MaxProseSize == 3

MaxCodeLines == 3

MaxCodeSize == 8

MaxSmartLen == 5

MaxSmartSize == 2

MaxRecursiveLen == 5

MaxRecursiveMax == 3

MaxRecursiveMin == 2

MaxTokenPieces == 4

MaxTokenLimit == 3

\* count_tokens, "gpt": the characters counted as one token
GptCharsPerToken == 4

\* the length of the zero vector chunk_semantic substitutes for a failed embedding
ZeroVectorDim == 768

(***************************************************************************)
(* FixedWindow: TextChunker::chunk_fixed                                   *)
(***************************************************************************)
FixedEnd(start, size, total_chars) == Min(start + size, total_chars)

\* the overlap computed without the test for the first chunk
FixedOverlapEveryChunk(index, overlap, start, end) == Min(overlap, end - start)

FixedActualOverlap(index, overlap, start, end) ==
    IF index > 0 THEN Min(overlap, end - start) ELSE 0

\* a step without the guard for overlap >= size
FixedStepUnguarded(size, overlap) == IF size > overlap THEN size - overlap ELSE 0

FixedStep(size, overlap) == IF size > overlap THEN size - overlap ELSE 1

\* lines 486-495: the empty input returns no chunk, otherwise the loop starts
FixedEnter ==
    /\ strategy = "fixed"
    /\ pc = "start"
    /\ pc' = IF CharCount(text) = 0 THEN "done" ELSE "loop"
    /\ loc' = [start |-> 0, index |-> 0]
    /\ UNCHANGED <<strategy, text, cfg, chunks>>

\* lines 497-533: one iteration of the loop
FixedLoop ==
    /\ strategy = "fixed"
    /\ pc = "loop"
    /\ LET total_chars == CharCount(text)
           start == loc.start
           index == loc.index
           end == FixedEnd(start, cfg.size, total_chars)
           content == SubSeq(text, start + 1, end)
           actual_overlap == FixedActualOverlap(index, cfg.overlap, start, end)
           next == Min(start + FixedStep(cfg.size, cfg.overlap), total_chars)
       IN  /\ chunks' = Append(chunks,
                  Chunk(content, start, end, index, end - start, actual_overlap,
                        "fixed", None, None, None))
           /\ IF end >= total_chars
              THEN pc' = "done" /\ loc' = loc
              ELSE IF next >= total_chars
              THEN pc' = "done" /\ loc' = [loc EXCEPT !.start = next]
              ELSE pc' = "loop" /\ loc' = [start |-> next, index |-> index + 1]
    /\ UNCHANGED <<strategy, text, cfg>>

FixedTexts == SeqsUpTo({"a", "b"}, MaxFixedLen)

InitFixed ==
    /\ strategy = "fixed"
    /\ text \in FixedTexts
    /\ cfg \in [size : 0..MaxFixedSize, overlap : 0..MaxFixedOverlap]
    /\ pc = "start"
    /\ loc = NotEntered
    /\ chunks = <<>>

NextFixed == FixedEnter \/ FixedLoop

SpecFixed == InitFixed /\ [][NextFixed]_vars

\* chunk_fixed runs without being suspended: a call that can take a step
\* takes it
SpecFixedFair == SpecFixed /\ WF_vars(NextFixed)

Contents(cs) == [i \in 1..Len(cs) |-> cs[i].content]

(***************************************************************************)
(* C3: FixedWindow, for every input, size and overlap: every chunk has     *)
(* size <= size, chunk 0 reports overlap 0 and every later chunk reports   *)
(* overlap = min(overlap, chunk.size).                                     *)
(***************************************************************************)
C3_FixedSizeAndOverlapBound ==
    strategy = "fixed" =>
        \A i \in 1..Len(chunks) :
            /\ chunks[i].size <= cfg.size
            /\ chunks[i].index = 0 => chunks[i].overlap = 0
            /\ chunks[i].index > 0 =>
                   chunks[i].overlap = Min(cfg.overlap, chunks[i].size)

\* a finished run of three or more chunks in which the requested overlap is
\* larger than the chunks, and one in which it is smaller
C3_Witness ==
    /\ strategy = "fixed" /\ pc = "done"
    /\ Len(chunks) >= 3
    /\ cfg.overlap > 0
    /\ chunks[1].overlap = 0
    /\ chunks[3].overlap = chunks[3].size
    /\ chunks[3].overlap < cfg.overlap

(***************************************************************************)
(* C4: FixedWindow with overlap = 0 reconstructs the input: for every text *)
(* and every size (size = 0 included) the contents of the chunks,          *)
(* concatenated in index order, are the input text.                        *)
(***************************************************************************)
C4_FixedReconstructs ==
    (strategy = "fixed" /\ pc = "done" /\ cfg.overlap = 0) =>
        Flatten(Contents(chunks)) = text

(***************************************************************************)
(* C5: FixedWindow: every chunk after the first reports as overlap the     *)
(* number of characters it shares with the previous chunk,                 *)
(* chunks[i-1].end - chunks[i].start, also when overlap >= size.           *)
(***************************************************************************)
C5_FixedOverlapIsShared ==
    strategy = "fixed" =>
        \A i \in 2..Len(chunks) :
            chunks[i].overlap = chunks[i - 1].end - chunks[i].start


(***************************************************************************)
(* Sentence: TextChunker::chunk_sentence.  st holds the loop's variables   *)
(* chunks, current_chunk and index.                                        *)
(***************************************************************************)
\* lines 548-559 and 573-584
SentenceChunk(current_chunk, index) ==
    Chunk(Trim(current_chunk), 0, CharCount(current_chunk), index,
          CharCount(current_chunk), 0, "sentence", None, None, None)

\* lines 546-568: the body of the loop for one sentence
SentenceStep(st, sentence, target_size) ==
    IF /\ CharCount(st.current_chunk) + CharCount(sentence) > target_size
       /\ st.current_chunk # <<>>
    THEN [chunks |-> Append(st.chunks, SentenceChunk(st.current_chunk, st.index)),
          current_chunk |-> sentence,
          index |-> st.index + 1]
    ELSE [st EXCEPT !.current_chunk = @ \o sentence]

\* lines 571-587
SentenceFinish(st) ==
    IF st.current_chunk # <<>>
    THEN Append(st.chunks, SentenceChunk(st.current_chunk, st.index))
    ELSE st.chunks

RECURSIVE SentenceFold(_, _, _)
SentenceFold(st, sentences, target_size) ==
    IF sentences = <<>> THEN st
    ELSE SentenceFold(SentenceStep(st, Head(sentences), target_size),
                      Tail(sentences), target_size)

\* chunk_sentence as a function of its arguments
ChunkSentence(t, target_size) ==
    SentenceFinish(SentenceFold(
        [chunks |-> <<>>, current_chunk |-> <<>>, index |-> 0],
        UnicodeSentences(t), target_size))

LoopState == [chunks |-> chunks, current_chunk |-> loc.current_chunk,
              index |-> loc.index]

\* lines 539-543
SentenceEnter ==
    /\ strategy = "sentence"
    /\ pc = "start"
    /\ pc' = "loop"
    /\ loc' = [units |-> UnicodeSentences(text), i |-> 1,
               current_chunk |-> <<>>, index |-> 0]
    /\ UNCHANGED <<strategy, text, cfg, chunks>>

\* lines 545-569: one iteration
SentenceLoop ==
    /\ strategy = "sentence"
    /\ pc = "loop"
    /\ loc.i <= Len(loc.units)
    /\ LET st == SentenceStep(LoopState, loc.units[loc.i], cfg.size)
       IN  /\ chunks' = st.chunks
           /\ loc' = [loc EXCEPT !.i = @ + 1,
                                 !.current_chunk = st.current_chunk,
                                 !.index = st.index]
    /\ UNCHANGED <<strategy, text, cfg, pc>>

\* lines 571-587: the final chunk and the return
SentenceReturn ==
    /\ strategy = "sentence"
    /\ pc = "loop"
    /\ loc.i > Len(loc.units)
    /\ chunks' = SentenceFinish(LoopState)
    /\ pc' = "done"
    /\ UNCHANGED <<strategy, text, cfg, loc>>

(***************************************************************************)
(* Paragraph: TextChunker::chunk_paragraph                                 *)
(***************************************************************************)
\* lines 602-613 and 626-640
ParagraphChunk(current_chunk, index) ==
    Chunk(Trim(current_chunk), 0, CharCount(current_chunk), index,
          CharCount(current_chunk), 0, "paragraph", None, None, None)

\* lines 597-622: the body of the loop for one paragraph
ParagraphStep(st, paragraph, target_size) ==
    IF /\ CharCount(st.current_chunk) + CharCount(paragraph) > target_size
       /\ st.current_chunk # <<>>
    THEN [chunks |-> Append(st.chunks, ParagraphChunk(st.current_chunk, st.index)),
          current_chunk |-> paragraph,
          index |-> st.index + 1]
    ELSE [st EXCEPT !.current_chunk =
              (IF @ # <<>> THEN @ \o <<"\n", "\n">> ELSE @) \o paragraph]

\* lines 625-642
ParagraphFinish(st) ==
    IF st.current_chunk # <<>>
    THEN Append(st.chunks, ParagraphChunk(st.current_chunk, st.index))
    ELSE st.chunks

\* lines 591-594
ParagraphEnter ==
    /\ strategy = "paragraph"
    /\ pc = "start"
    /\ pc' = "loop"
    /\ loc' = [units |-> SplitParagraphs(text), i |-> 1,
               current_chunk |-> <<>>, index |-> 0]
    /\ UNCHANGED <<strategy, text, cfg, chunks>>

\* lines 596-623: one iteration
ParagraphLoop ==
    /\ strategy = "paragraph"
    /\ pc = "loop"
    /\ loc.i <= Len(loc.units)
    /\ LET st == ParagraphStep(LoopState, loc.units[loc.i], cfg.size)
       IN  /\ chunks' = st.chunks
           /\ loc' = [loc EXCEPT !.i = @ + 1,
                                 !.current_chunk = st.current_chunk,
                                 !.index = st.index]
    /\ UNCHANGED <<strategy, text, cfg, pc>>

\* lines 625-642: the final chunk and the return
ParagraphReturn ==
    /\ strategy = "paragraph"
    /\ pc = "loop"
    /\ loc.i > Len(loc.units)
    /\ chunks' = ParagraphFinish(LoopState)
    /\ pc' = "done"
    /\ UNCHANGED <<strategy, text, cfg, loc>>

(***************************************************************************)
(* Code: TextChunker::chunk_code                                           *)
(***************************************************************************)
StartsWith(s, prefix) ==
    Len(s) >= Len(prefix) /\ SubSeq(s, 1, Len(prefix)) = prefix

BoundaryKeywords ==
    { <<"f", "n", " ">>,
      <<"f", "u", "n", "c", "t", "i", "o", "n", " ">>,
      <<"c", "l", "a", "s", "s", " ">>,
      <<"d", "e", "f", " ">>,
      <<"i", "m", "p", "l", " ">>,
      <<"s", "t", "r", "u", "c", "t", " ">> }

\* lines 656-661
IsBoundary(line) == \E k \in BoundaryKeywords : StartsWith(TrimStart(line), k)

\* lines 665-676 and 691-702
CodeChunk(current_chunk, chunk_start_line, current_line, index) ==
    Chunk(TrimEnd(current_chunk), chunk_start_line, current_line, index,
          ByteLen(current_chunk), 0, "code", None, None,
          Some(<<"lines", chunk_start_line + 1, current_line>>))

\* a loop body that flushes on any line once the size is exceeded
CodeStepAnyLine(st, line, target_size) ==
    IF /\ ByteLen(st.current_chunk) + ByteLen(line) > target_size
       /\ st.current_chunk # <<>>
    THEN [chunks |-> Append(st.chunks,
              CodeChunk(st.current_chunk, st.chunk_start_line, st.current_line,
                        st.index)),
          current_chunk |-> line \o <<"\n">>,
          chunk_start_line |-> st.current_line,
          current_line |-> st.current_line + 1,
          index |-> st.index + 1]
    ELSE [st EXCEPT !.current_chunk = @ \o line \o <<"\n">>,
                    !.current_line = @ + 1]

\* lines 655-686: the body of the loop for one line
CodeStep(st, line, target_size) ==
    IF /\ ByteLen(st.current_chunk) + ByteLen(line) > target_size
       /\ st.current_chunk # <<>>
       /\ IsBoundary(line)
    THEN [chunks |-> Append(st.chunks,
              CodeChunk(st.current_chunk, st.chunk_start_line, st.current_line,
                        st.index)),
          current_chunk |-> line \o <<"\n">>,
          chunk_start_line |-> st.current_line,
          current_line |-> st.current_line + 1,
          index |-> st.index + 1]
    ELSE [st EXCEPT !.current_chunk = @ \o line \o <<"\n">>,
                    !.current_line = @ + 1]

\* lines 689-705
CodeFinish(st) ==
    IF st.current_chunk # <<>>
    THEN Append(st.chunks,
             CodeChunk(st.current_chunk, st.chunk_start_line, st.current_line,
                       st.index))
    ELSE st.chunks

CodeLoopState ==
    [chunks |-> chunks, current_chunk |-> loc.current_chunk,
     chunk_start_line |-> loc.chunk_start_line,
     current_line |-> loc.current_line, index |-> loc.index]

\* lines 647-652
CodeEnter ==
    /\ strategy = "code"
    /\ pc = "start"
    /\ pc' = "loop"
    /\ loc' = [units |-> Lines(text), i |-> 1, current_chunk |-> <<>>,
               chunk_start_line |-> 0, current_line |-> 0, index |-> 0]
    /\ UNCHANGED <<strategy, text, cfg, chunks>>

\* lines 654-687: one iteration
CodeLoop ==
    /\ strategy = "code"
    /\ pc = "loop"
    /\ loc.i <= Len(loc.units)
    /\ LET st == CodeStep(CodeLoopState, loc.units[loc.i], cfg.size)
       IN  /\ chunks' = st.chunks
           /\ loc' = [loc EXCEPT !.i = @ + 1,
                                 !.current_chunk = st.current_chunk,
                                 !.chunk_start_line = st.chunk_start_line,
                                 !.current_line = st.current_line,
                                 !.index = st.index]
    /\ UNCHANGED <<strategy, text, cfg, pc>>

\* lines 689-705: the final chunk and the return
CodeReturn ==
    /\ strategy = "code"
    /\ pc = "loop"
    /\ loc.i > Len(loc.units)
    /\ chunks' = CodeFinish(CodeLoopState)
    /\ pc' = "done"
    /\ UNCHANGED <<strategy, text, cfg, loc>>

(***************************************************************************)
(* The calls of the unit-accumulating segmenters.                          *)
(***************************************************************************)
ProseTexts == SeqsUpTo({"A", ".", " ", "\n"}, MaxProseLen)

InitSentence ==
    /\ strategy = "sentence"
    /\ text \in ProseTexts
    /\ cfg \in [size : 0..MaxProseSize, overlap : {0}]
    /\ pc = "start"
    /\ loc = NotEntered
    /\ chunks = <<>>

NextSentence == SentenceEnter \/ SentenceLoop \/ SentenceReturn

SpecSentence == InitSentence /\ [][NextSentence]_vars

InitParagraph ==
    /\ strategy = "paragraph"
    /\ text \in ProseTexts
    /\ cfg \in [size : 0..MaxProseSize, overlap : {0}]
    /\ pc = "start"
    /\ loc = NotEntered
    /\ chunks = <<>>

NextParagraph == ParagraphEnter \/ ParagraphLoop \/ ParagraphReturn

SpecParagraph == InitParagraph /\ [][NextParagraph]_vars

CodeLines ==
    { <<"f", "n", " ", "a">>, <<" ", "d", "e", "f", " ", "b">>, <<" ", "x">>, <<>> }

CodeTexts ==
    LET joined == {JoinWith(ls, <<"\n">>) : ls \in SeqsUpTo(CodeLines, MaxCodeLines)}
    IN  joined \cup {t \o <<"\n">> : t \in joined}

InitCode ==
    /\ strategy = "code"
    /\ text \in CodeTexts
    /\ cfg \in [size : 0..MaxCodeSize, overlap : {0}]
    /\ pc = "start"
    /\ loc = NotEntered
    /\ chunks = <<>>

NextCode == CodeEnter \/ CodeLoop \/ CodeReturn

SpecCode == InitCode /\ [][NextCode]_vars

InitUnits == InitSentence \/ InitParagraph \/ InitCode

NextUnits == NextSentence \/ NextParagraph \/ NextCode

SpecUnits == InitUnits /\ [][NextUnits]_vars

\* the length of a content in the unit of the strategy that produced it
ContentLength(c) ==
    IF c.strategy \in {"sentence", "paragraph"}
    THEN CharCount(c.content)
    ELSE ByteLen(c.content)

(***************************************************************************)
(* C2: for every chunk of every strategy, size is the length of the        *)
(* chunk's content in the strategy's unit; in particular for the Sentence, *)
(* Paragraph and Code chunks, whose content is trimmed before it is stored.*)
(***************************************************************************)
C2_SizeIsContentLength ==
    \A i \in 1..Len(chunks) : chunks[i].size = ContentLength(chunks[i])

(***************************************************************************)
(* Embeddings.  A vector is a sequence of integers; an f32 similarity is   *)
(* kept in hundredths, and the vectors the provider answers with are       *)
(* chosen so that every cosine is a whole number of hundredths.            *)
(***************************************************************************)
ZeroVector == [i \in 1..ZeroVectorDim |-> 0]

ProviderVectors == { <<1, 0>>, <<0, 1>>, <<3, 4>> }

\* get_embedding (lines 1754-1777): the provider's vector, or a failure
EmbeddingReplies == {Some(v) : v \in ProviderVectors} \cup {None}

\* TextChunker::ollama_url: an address the provider answers at, and one at
\* which nothing answers
ReachableUrl == "http://localhost:11434"

UnreachableUrl == "http://unreachable:11434"

OllamaUrls == {ReachableUrl, UnreachableUrl}

\* the outcomes of a request sent to ollama_url (lines 1760-1775): sending
\* fails when nothing answers; a provider that answers may still give a
\* non-success status or an undecodable body
ProviderReplies(ollama_url) ==
    IF ollama_url = UnreachableUrl THEN {None} ELSE EmbeddingReplies

\* the sum of a[i] * b[i] for i in lo..hi, by halves
RECURSIVE DotRange(_, _, _, _)
DotRange(a, b, lo, hi) ==
    IF lo > hi THEN 0
    ELSE IF lo = hi THEN a[lo] * b[lo]
    ELSE LET mid == (lo + hi) \div 2
         IN  DotRange(a, b, lo, mid) + DotRange(a, b, mid + 1, hi)

Dot(a, b) == DotRange(a, b, 1, Len(a))

ISqrt(n) == CHOOSE r \in 0..n : r * r <= n /\ (r + 1) * (r + 1) > n

\* lines 1868-1882
CosineSimilarity(a, b) ==
    IF Len(a) # Len(b) THEN 0
    ELSE LET magnitude_a == ISqrt(Dot(a, a))
             magnitude_b == ISqrt(Dot(b, b))
         IN  IF magnitude_a = 0 \/ magnitude_b = 0 THEN 0
             ELSE (Dot(a, b) * 100) \div (magnitude_a * magnitude_b)

(***************************************************************************)
(* Semantic: TextChunker::chunk_semantic.  Sentence numbers are those of   *)
(* the code (from 0); sentence idx is loc.sentences[idx + 1].              *)
(***************************************************************************)
\* a group text that kept the group's first sentence only
GroupTextFirstOnly(sentences, current_group) == sentences[current_group[1] + 1]

GroupText(sentences, current_group) ==
    JoinWith([k \in 1..Len(current_group) |-> sentences[current_group[k] + 1]],
             <<" ">>)

\* a chunk that recorded no similarity
SemanticChunkUnannotated(chunk_text, current_start, index, similarity, embedding) ==
    Chunk(chunk_text, current_start, current_start + ByteLen(chunk_text), index,
          ByteLen(chunk_text), 0, "semantic", None, embedding, None)

\* a list of embeddings that took the newest one at its head
SemanticStoresFirst(embeddings, embedding) == <<embedding>> \o embeddings

\* lines 720 and 723: embeddings.push
SemanticStores(embeddings, embedding) == Append(embeddings, embedding)

\* a test that closed the group on an equal similarity too
SemanticClosesOnEqual(similarity, threshold) == similarity <= threshold

\* line 735: whether the pair's similarity closes the current group
SemanticCloses(similarity, threshold) == similarity < threshold

\* lines 743-754
SemanticChunk(chunk_text, current_start, index, similarity, embedding) ==
    Chunk(chunk_text, current_start, current_start + ByteLen(chunk_text), index,
          ByteLen(chunk_text), 0, "semantic", similarity, embedding, None)

\* what chunk_semantic's caller does with the returned chunks: chunk_text
\* returns them (line 443), chunk_smart iterates over them (lines 819-822)
SemanticHandOff(result) ==
    IF strategy = "smart"
    THEN /\ pc' = "smart"
         /\ loc' = [semantic_chunks |-> result, k |-> 1]
         /\ chunks' = <<>>
    ELSE /\ pc' = "done"
         /\ loc' = loc
         /\ chunks' = result

\* lines 710-717
SemanticEnter ==
    /\ strategy \in {"semantic", "smart"}
    /\ pc = "start"
    /\ LET sentences == UnicodeSentences(text)
       IN  IF sentences = <<>>
           THEN SemanticHandOff(<<>>)
           ELSE /\ pc' = "embed"
                /\ loc' = [sentences |-> sentences, embeddings |-> <<>>,
                           requests |-> <<>>,
                           current_group |-> <<0>>, current_start |-> 0, i |-> 1]
                /\ chunks' = <<>>
    /\ UNCHANGED <<strategy, text, cfg>>

\* lines 718-719 and 1755-1763: the request for the next sentence of the
\* loop is sent.  loc.requests lists the requests sent so far, each with its
\* prompt and, once it has completed, its outcome.
SemanticRequest ==
    /\ strategy \in {"semantic", "smart"}
    /\ pc = "embed"
    /\ pc' = "await"
    /\ loc' = [loc EXCEPT !.requests =
                 Append(@, [prompt |-> loc.sentences[Len(loc.embeddings) + 1],
                            completed |-> FALSE, reply |-> None])]
    /\ UNCHANGED <<strategy, text, cfg, chunks>>

\* lines 719-724: the awaited request completes or fails, and its embedding
\* or the zero vector is stored
SemanticEmbed ==
    /\ strategy \in {"semantic", "smart"}
    /\ pc = "await"
    /\ \E reply \in ProviderReplies(cfg.ollama_url) :
           LET embedding == IF reply = None THEN ZeroVector ELSE reply[1]
               embeddings == SemanticStores(loc.embeddings, embedding)
           IN  /\ loc' = [loc EXCEPT !.embeddings = embeddings,
                                     !.requests[Len(loc.requests)] =
                                         [@ EXCEPT !.completed = TRUE,
                                                   !.reply = reply]]
               /\ pc' = IF Len(embeddings) = Len(loc.sentences)
                        THEN "group" ELSE "embed"
    /\ UNCHANGED <<strategy, text, cfg, chunks>>

\* lines 732-761: one iteration of the similarity walk
SemanticGroup ==
    /\ strategy \in {"semantic", "smart"}
    /\ pc = "group"
    /\ loc.i < Len(loc.sentences)
    /\ LET i == loc.i
           similarity == CosineSimilarity(loc.embeddings[i], loc.embeddings[i + 1])
           chunk_text == GroupText(loc.sentences, loc.current_group)
           chunk_end == loc.current_start + ByteLen(chunk_text)
       IN  IF SemanticCloses(similarity, cfg.threshold)
           THEN /\ chunks' = Append(chunks,
                      SemanticChunk(chunk_text, loc.current_start, Len(chunks),
                                    Some(similarity), Some(loc.embeddings[i])))
                /\ loc' = [loc EXCEPT !.current_group = <<i>>,
                                      !.current_start = chunk_end,
                                      !.i = i + 1]
           ELSE /\ chunks' = chunks
                /\ loc' = [loc EXCEPT !.current_group = Append(@, i),
                                      !.i = i + 1]
    /\ UNCHANGED <<strategy, text, cfg, pc>>

\* lines 763-786: the final chunk and the return
SemanticReturn ==
    /\ strategy \in {"semantic", "smart"}
    /\ pc = "group"
    /\ loc.i >= Len(loc.sentences)
    /\ LET chunk_text == GroupText(loc.sentences, loc.current_group)
           last == loc.current_group[Len(loc.current_group)]
       IN  SemanticHandOff(Append(chunks,
               SemanticChunk(chunk_text, loc.current_start, Len(chunks), None,
                             Some(loc.embeddings[last + 1]))))
    /\ UNCHANGED <<strategy, text, cfg>>

(***************************************************************************)
(* Smart: TextChunker::chunk_smart                                         *)
(***************************************************************************)
\* lines 828-832: the sub-chunks relabelled and numbered as they are pushed
SmartSubChunks(sub_chunks, smart_chunks) ==
    [n \in 1..Len(sub_chunks) |->
        [sub_chunks[n] EXCEPT !.strategy = "smart",
                              !.index = Len(smart_chunks) + n - 1]]

\* lines 823-833: what one semantic chunk adds to smart_chunks
SmartStep(smart_chunks, chunk, size, overlap) ==
    IF chunk.size <= size * 2
    THEN Append(smart_chunks, chunk)
    ELSE smart_chunks \o SmartSubChunks(ChunkSentence(chunk.content, size), smart_chunks)

\* lines 822-834: one iteration over the semantic chunks
SmartLoop ==
    /\ strategy = "smart"
    /\ pc = "smart"
    /\ loc.k <= Len(loc.semantic_chunks)
    /\ chunks' = SmartStep(chunks, loc.semantic_chunks[loc.k], cfg.size, cfg.overlap)
    /\ loc' = [loc EXCEPT !.k = @ + 1]
    /\ UNCHANGED <<strategy, text, cfg, pc>>

\* line 836
SmartReturn ==
    /\ strategy = "smart"
    /\ pc = "smart"
    /\ loc.k > Len(loc.semantic_chunks)
    /\ pc' = "done"
    /\ UNCHANGED <<strategy, text, cfg, loc, chunks>>

SmartTexts == SeqsUpTo({"A", " ", "\n"}, MaxSmartLen)

Thresholds == {0, 70}

InitSmart ==
    /\ strategy = "smart"
    /\ text \in SmartTexts
    /\ cfg \in [size : 0..MaxSmartSize, overlap : {0}, threshold : Thresholds,
                ollama_url : OllamaUrls]
    /\ pc = "start"
    /\ loc = NotEntered
    /\ chunks = <<>>

NextSmart ==
    \/ SemanticEnter \/ SemanticRequest \/ SemanticEmbed \/ SemanticGroup
    \/ SemanticReturn
    \/ SmartLoop \/ SmartReturn

SpecSmart == InitSmart /\ [][NextSmart]_vars

InitSemantic ==
    /\ strategy = "semantic"
    /\ text \in SmartTexts
    /\ cfg \in [size : 0..MaxSmartSize, threshold : Thresholds,
                ollama_url : OllamaUrls]
    /\ pc = "start"
    /\ loc = NotEntered
    /\ chunks = <<>>

NextSemantic ==
    \/ SemanticEnter \/ SemanticRequest \/ SemanticEmbed \/ SemanticGroup
    \/ SemanticReturn

SpecSemantic == InitSemantic /\ [][NextSemantic]_vars

(***************************************************************************)
(* C1: for every strategy, Smart included, the chunks of a result are      *)
(* numbered in order: chunks[i].index = i, from 0, with no gap or repeat.  *)
(* (A TLA+ sequence starts at 1, so the chunk at position i carries i-1.)  *)
(***************************************************************************)
C1_IndexIsPosition ==
    pc = "done" => \A i \in 1..Len(chunks) : chunks[i].index = i - 1

(***************************************************************************)
(* Recursive: TextChunker::chunk_recursive and recursive_split             *)
(***************************************************************************)
\* lines 1687-1695: the end of the last leading sentence that ends within max_size
RECURSIVE SentenceSplitScan(_, _, _, _)
SentenceSplitScan(sentences, current_pos, best_split, max_size) ==
    IF sentences = <<>> THEN best_split
    ELSE LET next_pos == current_pos + ByteLen(Head(sentences))
         IN  IF next_pos <= max_size
             THEN SentenceSplitScan(Tail(sentences), next_pos, Some(next_pos), max_size)
             ELSE best_split

\* Option::filter(|&pos| pos > 0 && pos < text.len())
InsideText(best_split, t) ==
    IF best_split # None /\ best_split[1] > 0 /\ best_split[1] < ByteLen(t)
    THEN best_split
    ELSE None

\* lines 1682-1698
FindSentenceSplitPoint(t, max_size) ==
    InsideText(SentenceSplitScan(UnicodeSentences(t), 0, None, max_size), t)

\* lines 1705-1713
RECURSIVE ParagraphSplitScan(_, _, _, _, _)
ParagraphSplitScan(paragraphs, current_pos, best_split, max_size, t) ==
    IF paragraphs = <<>> THEN best_split
    ELSE LET next_pos == current_pos + ByteLen(Head(paragraphs)) + 2
         IN  IF next_pos <= max_size /\ next_pos < ByteLen(t)
             THEN ParagraphSplitScan(Tail(paragraphs), next_pos, Some(next_pos),
                                     max_size, t)
             ELSE best_split

\* lines 1700-1716
FindParagraphSplitPoint(t, max_size) ==
    InsideText(ParagraphSplitScan(SplitParagraphs(t), 0, None, max_size, t), t)

\* str::find: the offset of the first occurrence of needle in hay, None without one
RECURSIVE FindFrom(_, _, _)
FindFrom(hay, needle, k) ==
    IF k + Len(needle) > Len(hay) THEN None
    ELSE IF SubSeq(hay, k + 1, k + Len(needle)) = needle THEN Some(k)
    ELSE FindFrom(hay, needle, k + 1)

\* the number of whitespace bytes at the head of s
RECURSIVE LeadingWhitespace(_)
LeadingWhitespace(s) ==
    IF s # <<>> /\ IsWhitespace(Head(s)) THEN 1 + LeadingWhitespace(Tail(s)) ELSE 0

\* lines 1724-1749
RECURSIVE WordSplitScan(_, _, _, _, _, _)
WordSplitScan(words, remaining_text, current_pos, best_split, max_size, t) ==
    IF words = <<>> THEN best_split
    ELSE LET word == Head(words)
             found == FindFrom(remaining_text, word, 0)
         IN  IF found = None THEN best_split
             ELSE LET word_end_in_remaining == found[1] + ByteLen(word)
                      next_pos == current_pos + word_end_in_remaining
                      rest == SubSeq(remaining_text, word_end_in_remaining + 1,
                                     Len(remaining_text))
                      whitespace_end == LeadingWhitespace(rest)
                      next_pos_with_space == next_pos + whitespace_end
                  IN  IF /\ next_pos_with_space <= max_size
                         /\ next_pos_with_space < ByteLen(t)
                      THEN WordSplitScan(Tail(words),
                               SubSeq(rest, whitespace_end + 1, Len(rest)),
                               next_pos_with_space, Some(next_pos_with_space),
                               max_size, t)
                      ELSE best_split

\* lines 1718-1752
FindWordSplitPoint(t, max_size) ==
    InsideText(WordSplitScan(SplitWhitespace(t), t, 0, None, max_size, t), t)

\* lines 1617-1628
RecursiveChunk(t, offset, chunk_index) ==
    Chunk(t, offset, offset + ByteLen(t), chunk_index, ByteLen(t), 0,
          "recursive", None, None, Some(<<"recursive split (size)", ByteLen(t)>>))

\* the guard of line 1616 lost: every text that fits is emitted
RecursiveEmitsEveryFit(t, min_size, emitted) == TRUE

\* line 1616
RecursiveEmits(t, min_size, emitted) == ByteLen(t) >= min_size \/ emitted = <<>>

\* the test of line 1615 off by one
RecursiveFitsOffByOne(t, max_size) == ByteLen(t) <= max_size + 1

\* line 1615
RecursiveFits(t, max_size) == ByteLen(t) <= max_size

\* str::split_at and the two calls of lines 1636-1638, 1644-1646 and 1652-1654:
\* the halves are trimmed, the right half's offset is the untrimmed left's length
TrimmedHalves(call, split_point) ==
    LET left == SubSeq(call.text, 1, split_point)
        right == SubSeq(call.text, split_point + 1, Len(call.text))
    IN  << [text |-> TrimEnd(left), offset |-> call.offset, depth |-> call.depth + 1],
           [text |-> TrimStart(right), offset |-> call.offset + ByteLen(left),
            depth |-> call.depth + 1] >>

\* lines 1659-1663: the cut at max_size, the halves untrimmed
CharacterHalves(call, split_point) ==
    LET left == SubSeq(call.text, 1, split_point)
        right == SubSeq(call.text, split_point + 1, Len(call.text))
    IN  << [text |-> left, offset |-> call.offset, depth |-> call.depth + 1],
           [text |-> right, offset |-> call.offset + ByteLen(left),
            depth |-> call.depth + 1] >>

\* lines 1634-1663: the two calls an oversized text makes, in order
RecursiveCalls(call, max_size) ==
    LET bySentence == FindSentenceSplitPoint(call.text, max_size)
        byParagraph == FindParagraphSplitPoint(call.text, max_size)
        byWord == FindWordSplitPoint(call.text, max_size)
    IN  IF bySentence # None THEN TrimmedHalves(call, bySentence[1])
        ELSE IF byParagraph # None THEN TrimmedHalves(call, byParagraph[1])
        ELSE IF byWord # None THEN TrimmedHalves(call, byWord[1])
        ELSE CharacterHalves(call, max_size)

\* The call stack holds a frame for every call that has not returned; a
\* terminating run on a text of at most MaxRecursiveLen bytes nests at most
\* MaxRecursiveLen + 1 calls, and the stack of the model holds that many.
StackLimit == MaxRecursiveLen + 1

\* lines 1580-1584: the first call of recursive_split
RecursiveEnter ==
    /\ strategy = "recursive"
    /\ pc = "start"
    /\ pc' = "split"
    /\ loc' = [stack |-> << [text |-> text, offset |-> 0, depth |-> 1] >>,
               chunk_index |-> 0]
    /\ UNCHANGED <<strategy, text, cfg, chunks>>

\* lines 1614-1663: the pending call on top of the stack runs: it emits a chunk
\* or not and returns, or it makes its two calls (the left one runs first)
RecursiveSplit ==
    /\ strategy = "recursive"
    /\ pc = "split"
    /\ loc.stack # <<>>
    /\ Head(loc.stack).depth <= StackLimit
    /\ LET call == Head(loc.stack)
       IN  IF RecursiveFits(call.text, cfg.max_size)
           THEN IF RecursiveEmits(call.text, cfg.min_size, chunks)
                THEN /\ chunks' = Append(chunks,
                            RecursiveChunk(call.text, call.offset, loc.chunk_index))
                     /\ loc' = [loc EXCEPT !.stack = Tail(@),
                                           !.chunk_index = @ + 1]
                ELSE /\ chunks' = chunks
                     /\ loc' = [loc EXCEPT !.stack = Tail(@)]
           ELSE /\ chunks' = chunks
                /\ loc' = [loc EXCEPT !.stack =
                               RecursiveCalls(call, cfg.max_size) \o Tail(@)]
    /\ UNCHANGED <<strategy, text, cfg, pc>>

\* a call nested deeper than the stack holds: the process is aborted
RecursiveOverflow ==
    /\ strategy = "recursive"
    /\ pc = "split"
    /\ loc.stack # <<>>
    /\ Head(loc.stack).depth > StackLimit
    /\ pc' = "overflow"
    /\ UNCHANGED <<strategy, text, cfg, loc, chunks>>

\* lines 1586-1602: the first call has returned
RecursiveReturn ==
    /\ strategy = "recursive"
    /\ pc = "split"
    /\ loc.stack = <<>>
    /\ chunks' = IF chunks = <<>>
                 THEN << Chunk(text, 0, ByteLen(text), 0, ByteLen(text), 0,
                               "recursive", None, None,
                               Some(<<"entire document (no splitting needed)">>)) >>
                 ELSE chunks
    /\ pc' = "done"
    /\ UNCHANGED <<strategy, text, cfg, loc>>

RecursiveTexts == SeqsUpTo({"A", " ", "\n"}, MaxRecursiveLen)

InitRecursive ==
    /\ strategy = "recursive"
    /\ text \in RecursiveTexts
    /\ cfg \in [max_size : 0..MaxRecursiveMax, min_size : 0..MaxRecursiveMin]
    /\ pc = "start"
    /\ loc = NotEntered
    /\ chunks = <<>>

NextRecursive ==
    RecursiveEnter \/ RecursiveSplit \/ RecursiveOverflow \/ RecursiveReturn

SpecRecursive == InitRecursive /\ [][NextRecursive]_vars

(***************************************************************************)
(* C6: Recursive: every emitted chunk has size <= max_chunk_size,          *)
(* whichever tier (sentence, paragraph, word, character cut) made the      *)
(* split that produced it.                                                 *)
(***************************************************************************)
C6_RecursiveMaxSize ==
    strategy = "recursive" =>
        \A i \in 1..Len(chunks) : chunks[i].size <= cfg.max_size

\* a finished run on a text of one long word, cut at max_size into three chunks
C6_Witness ==
    /\ strategy = "recursive" /\ pc = "done"
    /\ ByteLen(text) > cfg.max_size
    /\ \A k \in 1..Len(text) : ~IsWhitespace(text[k])
    /\ Len(chunks) = 3
    /\ chunks[1].size = cfg.max_size
    /\ chunks[3].size < cfg.max_size

(***************************************************************************)
(* C7: Recursive: a result of two or more chunks holds no chunk shorter    *)
(* than min_chunk_size (every chunk has size >= min_chunk_size unless it   *)
(* is the sole chunk of the result).                                       *)
(***************************************************************************)
C7_RecursiveMinUnlessSole ==
    (strategy = "recursive" /\ pc = "done" /\ Len(chunks) >= 2) =>
        \A i \in 1..Len(chunks) : chunks[i].size >= cfg.min_size

(***************************************************************************)
(* C7 as amended: Recursive: every chunk of a result has                   *)
(* size >= min_chunk_size unless it is the first chunk of the result.      *)
(***************************************************************************)
C7_RecursiveMinUnlessFirst ==
    strategy = "recursive" =>
        \A i \in 2..Len(chunks) : chunks[i].size >= cfg.min_size

\* a finished run whose first chunk is not empty, is shorter than
\* min_chunk_size and is followed by a chunk that is not
C7_Witness ==
    /\ strategy = "recursive" /\ pc = "done"
    /\ cfg.min_size <= cfg.max_size
    /\ Len(chunks) >= 2
    /\ chunks[1].size > 0
    /\ chunks[1].size < cfg.min_size
    /\ chunks[2].size >= cfg.min_size

(***************************************************************************)
(* C8: Recursive terminates: for every text and every max_chunk_size and   *)
(* min_chunk_size (max_chunk_size = 0 included) the recursion comes to the *)
(* state where no call is pending, every call being on a strictly shorter  *)
(* text than its caller; the nesting of the calls never outgrows the       *)
(* stack.                                                                  *)
(***************************************************************************)
C8_RecursiveTerminates ==
    strategy = "recursive" => pc # "overflow"

(***************************************************************************)
(* TokenAware: TextChunker::chunk_token_aware, count_tokens and            *)
(* split_by_words                                                          *)
(***************************************************************************)
PunctCount(word) == Len(SelectSeq(word, IsAsciiPunctuation))

\* lines 1521-1546
CountTokens(t, tokenizer) ==
    IF tokenizer = "word"
    THEN LET words == SplitWhitespace(t)
         IN  SumSeq([k \in 1..Len(words) |-> 1 + PunctCount(words[k])])
    ELSE IF tokenizer = "gpt"
    THEN (ByteLen(t) + GptCharsPerToken - 1) \div GptCharsPerToken
    ELSE Len(SplitWhitespace(t))

\* the test of lines 1411 and 1557 with the tokens of the new unit left out
TokenExceedsWithoutUnit(current_token_count, unit_tokens, token_limit) ==
    current_token_count > token_limit

\* lines 1411 and 1557: the unit does not fit the budget that is left
TokenExceeds(current_token_count, unit_tokens, token_limit) ==
    current_token_count + unit_tokens > token_limit

\* lines 1554-1565: st holds chunks, current_chunk and current_token_count
WordStep(st, word, token_limit, tokenizer) ==
    LET word_tokens == CountTokens(word, tokenizer)
        flushed ==
            IF /\ TokenExceeds(st.current_token_count, word_tokens, token_limit)
               /\ st.current_chunk # <<>>
            THEN [chunks |-> Append(st.chunks, JoinWith(st.current_chunk, <<" ">>)),
                  current_chunk |-> <<>>,
                  current_token_count |-> 0]
            ELSE st
    IN  [flushed EXCEPT !.current_chunk = Append(@, word),
                        !.current_token_count = @ + word_tokens]

RECURSIVE WordFold(_, _, _, _)
WordFold(st, words, token_limit, tokenizer) ==
    IF words = <<>> THEN st
    ELSE WordFold(WordStep(st, Head(words), token_limit, tokenizer),
                  Tail(words), token_limit, tokenizer)

\* lines 1548-1577
SplitByWords(sentence, token_limit, tokenizer) ==
    LET st == WordFold([chunks |-> <<>>, current_chunk |-> <<>>,
                        current_token_count |-> 0],
                       SplitWhitespace(sentence), token_limit, tokenizer)
        pushed == IF st.current_chunk # <<>>
                  THEN Append(st.chunks, JoinWith(st.current_chunk, <<" ">>))
                  ELSE st.chunks
    IN  IF pushed = <<>> THEN <<sentence>> ELSE pushed

\* lines 1413-1430, 1437-1454 and 1486-1498: the sentences held become a chunk
TokenFlush(st, token_limit) ==
    LET chunk_text == Flatten(st.current_chunk_sentences)
    IN  [st EXCEPT
            !.chunks = Append(@,
                Chunk(chunk_text, st.chunk_start_pos,
                      st.chunk_start_pos + ByteLen(chunk_text), st.chunk_index,
                      ByteLen(chunk_text), 0, "token-aware", None, None,
                      Some(<<"tokens", st.current_token_count, token_limit>>))),
            !.chunk_index = @ + 1,
            !.chunk_start_pos = st.char_position,
            !.current_chunk_sentences = <<>>,
            !.current_token_count = 0]

\* lines 1459-1474: the pieces of an oversized sentence become chunks
RECURSIVE TokenPushWordChunks(_, _, _)
TokenPushWordChunks(st, word_chunks, token_limit) ==
    IF word_chunks = <<>> THEN st
    ELSE LET word_chunk == Head(word_chunks)
         IN  TokenPushWordChunks(
                 [st EXCEPT
                     !.chunks = Append(@,
                         Chunk(word_chunk, st.char_position,
                               st.char_position + ByteLen(word_chunk),
                               st.chunk_index, ByteLen(word_chunk), 0,
                               "token-aware", None, None,
                               Some(<<"split sentence tokens", token_limit,
                                      token_limit>>))),
                     !.chunk_index = @ + 1,
                     !.char_position = @ + ByteLen(word_chunk)],
                 Tail(word_chunks), token_limit)

\* lines 1408-1481: the body of the loop for one sentence
TokenStep(st, sentence, token_limit, tokenizer) ==
    LET sentence_tokens == CountTokens(sentence, tokenizer)
        st1 == IF /\ TokenExceeds(st.current_token_count, sentence_tokens, token_limit)
                  /\ st.current_chunk_sentences # <<>>
               THEN TokenFlush(st, token_limit)
               ELSE st
    IN  IF sentence_tokens > token_limit
        THEN LET st2 == IF st1.current_chunk_sentences # <<>>
                        THEN TokenFlush(st1, token_limit)
                        ELSE st1
                 st3 == TokenPushWordChunks(st2,
                            SplitByWords(sentence, token_limit, tokenizer),
                            token_limit)
             IN  [st3 EXCEPT !.chunk_start_pos = st3.char_position]
        ELSE [st1 EXCEPT !.current_chunk_sentences = Append(@, sentence),
                         !.current_token_count = @ + sentence_tokens,
                         !.char_position = @ + ByteLen(sentence)]

\* lines 1484-1518: the last chunk, and the whole text when there is no chunk
TokenFinish(st, t, token_limit, tokenizer) ==
    LET last == IF st.current_chunk_sentences # <<>>
                THEN TokenFlush(st, token_limit).chunks
                ELSE st.chunks
    IN  IF last = <<>>
        THEN << Chunk(t, 0, ByteLen(t), 0, ByteLen(t), 0, "token-aware", None, None,
                      Some(<<"tokens", CountTokens(t, tokenizer), token_limit>>)) >>
        ELSE last

TokenLoopState ==
    [chunks |-> chunks,
     current_chunk_sentences |-> loc.current_chunk_sentences,
     current_token_count |-> loc.current_token_count,
     chunk_index |-> loc.chunk_index,
     char_position |-> loc.char_position,
     chunk_start_pos |-> loc.chunk_start_pos]

\* lines 1399-1405
TokenEnter ==
    /\ strategy = "token-aware"
    /\ pc = "start"
    /\ pc' = "loop"
    /\ loc' = [units |-> UnicodeSentences(text), i |-> 1,
               current_chunk_sentences |-> <<>>, current_token_count |-> 0,
               chunk_index |-> 0, char_position |-> 0, chunk_start_pos |-> 0]
    /\ UNCHANGED <<strategy, text, cfg, chunks>>

\* lines 1407-1482: one iteration
TokenLoop ==
    /\ strategy = "token-aware"
    /\ pc = "loop"
    /\ loc.i <= Len(loc.units)
    /\ LET st == TokenStep(TokenLoopState, loc.units[loc.i], cfg.token_limit,
                           cfg.tokenizer)
       IN  /\ chunks' = st.chunks
           /\ loc' = [loc EXCEPT
                         !.i = @ + 1,
                         !.current_chunk_sentences = st.current_chunk_sentences,
                         !.current_token_count = st.current_token_count,
                         !.chunk_index = st.chunk_index,
                         !.char_position = st.char_position,
                         !.chunk_start_pos = st.chunk_start_pos]
    /\ UNCHANGED <<strategy, text, cfg, pc>>

\* lines 1484-1518
TokenReturn ==
    /\ strategy = "token-aware"
    /\ pc = "loop"
    /\ loc.i > Len(loc.units)
    /\ chunks' = TokenFinish(TokenLoopState, text, cfg.token_limit, cfg.tokenizer)
    /\ pc' = "done"
    /\ UNCHANGED <<strategy, text, cfg, loc>>

TokenPieces ==
    { <<"A">>, <<"A", "A", "A", "A">>, <<" ">>, <<".">>, <<"A", ".", " ">> }

TokenTexts == {Flatten(ps) : ps \in SeqsUpTo(TokenPieces, MaxTokenPieces)}

\* "word", "gpt", and a name count_tokens does not know
Tokenizers == {"word", "gpt", "other"}

InitTokenAware ==
    /\ strategy = "token-aware"
    /\ text \in TokenTexts
    /\ cfg \in [token_limit : 0..MaxTokenLimit, tokenizer : Tokenizers]
    /\ pc = "start"
    /\ loc = NotEntered
    /\ chunks = <<>>

NextTokenAware == TokenEnter \/ TokenLoop \/ TokenReturn

SpecTokenAware == InitTokenAware /\ [][NextTokenAware]_vars

\* the chunks made of whole sentences carry "tokens: n (limit: l)", the pieces
\* of an oversized sentence "split sentence tokens: ~l (limit: l)"
IsSentenceChunk(c) == c.source[1][1] = "tokens"

IsWordSplitChunk(c) == c.source[1][1] = "split sentence tokens"

(***************************************************************************)
(* C9: TokenAware, for every tokenizer ("word", "gpt", any other name) and *)
(* every token_limit: every chunk built by accumulating whole sentences    *)
(* costs at most token_limit tokens.  (With no sentence in the text the    *)
(* one chunk is the whole text, which is no accumulation of sentences.)    *)
(***************************************************************************)
C9_TokenAwareSentenceChunksWithinLimit ==
    (strategy = "token-aware" /\ pc # "start" /\ loc.units # <<>>) =>
        \A i \in 1..Len(chunks) :
            IsSentenceChunk(chunks[i]) =>
                CountTokens(chunks[i].content, cfg.tokenizer) <= cfg.token_limit

\* a finished run of two or more chunks, one of them two or more sentences
\* that fill the budget exactly
C9_Witness ==
    /\ strategy = "token-aware" /\ pc = "done"
    /\ Len(chunks) >= 2
    /\ \E i \in 1..Len(chunks) :
           /\ IsSentenceChunk(chunks[i])
           /\ Len(UnicodeSentences(chunks[i].content)) >= 2
           /\ CountTokens(chunks[i].content, cfg.tokenizer) = cfg.token_limit

(***************************************************************************)
(* C10: TokenAware: every piece the word split of an oversized sentence    *)
(* emits costs at most token_limit tokens under the same tokenizer, except *)
(* a piece that is one single word.                                        *)
(***************************************************************************)
C10_WordSplitWithinLimit ==
    strategy = "token-aware" =>
        \A i \in 1..Len(chunks) :
            IsWordSplitChunk(chunks[i]) =>
                \/ CountTokens(chunks[i].content, cfg.tokenizer) <= cfg.token_limit
                \/ Len(SplitWhitespace(chunks[i].content)) = 1

(***************************************************************************)
(* Heading: TextChunker::chunk_heading_based                               *)
(***************************************************************************)
MaxHeadingLen == 3

MaxLevelsLen == 2

\* the word the model gives usize: the arithmetic wraps as on the 64-bit
\* targets, on a word TLC's integers can hold; every length of the model is
\* far below both
UsizeBits == 16

UsizeModulus == 2 ^ UsizeBits

\* the value a wrapping (release build) usize computation leaves
WrappingUsize(n) == n % UsizeModulus

\* the position of the first sep at or after from, Len(t) + 1 when there is none
RECURSIVE NextSeparator(_, _, _)
NextSeparator(t, sep, from) ==
    IF from > Len(t) \/ t[from] = sep THEN from
    ELSE NextSeparator(t, sep, from + 1)

\* str::split(char): at least one piece, an empty one around each separator
RECURSIVE SplitCharFrom(_, _, _)
SplitCharFrom(t, sep, from) ==
    LET e == NextSeparator(t, sep, from)
    IN  IF e > Len(t) THEN <<SubSeq(t, from, Len(t))>>
        ELSE <<SubSeq(t, from, e - 1)>> \o SplitCharFrom(t, sep, e + 1)

SplitChar(t, sep) == SplitCharFrom(t, sep, 1)

DigitValue(c) ==
    CASE c = "0" -> 0 [] c = "1" -> 1 [] c = "2" -> 2 [] c = "3" -> 3
      [] c = "4" -> 4 [] c = "5" -> 5 [] c = "6" -> 6 [] c = "7" -> 7
      [] c = "8" -> 8 [] c = "9" -> 9

IsDigit(c) == c \in {"0", "1", "2", "3", "4", "5", "6", "7", "8", "9"}

RECURSIVE DecimalValue(_)
DecimalValue(s) ==
    IF s = <<>> THEN 0
    ELSE DecimalValue(SubSeq(s, 1, Len(s) - 1)) * 10 + DigitValue(s[Len(s)])

\* str::parse::<usize>().ok(): decimal digits after an optional "+"
ParseUsize(s) ==
    LET digits == IF s # <<>> /\ Head(s) = "+" THEN Tail(s) ELSE s
    IN  IF digits # <<>> /\ \A k \in 1..Len(digits) : IsDigit(digits[k])
        THEN Some(DecimalValue(digits))
        ELSE None

\* lines 845-849: the requested levels, those that parse and lie in 1..6
HeadingLevels(heading_levels) ==
    LET pieces == SplitChar(heading_levels, ",")
        parsed == {ParseUsize(Trim(pieces[k])) : k \in 1..Len(pieces)}
    IN  {p[1] : p \in {q \in parsed : q # None /\ q[1] >= 1 /\ q[1] <= 6}}

\* line 880: the number of leading "#"
RECURSIVE HashCount(_)
HashCount(s) ==
    IF s # <<>> /\ Head(s) = "#" THEN 1 + HashCount(Tail(s)) ELSE 0

\* lines 875-887
IsHeading(line, levels) ==
    LET trimmed_line == TrimStart(line)
        hash_count == HashCount(trimmed_line)
    IN  /\ trimmed_line # <<>> /\ Head(trimmed_line) = "#"
        /\ hash_count <= 6 /\ hash_count \in levels
        /\ \/ (Len(trimmed_line) > hash_count /\ trimmed_line[hash_count + 1] = " ")
           \/ ByteLen(trimmed_line) = hash_count

\* lines 853-864, 938-949 and the like: the whole text as the only chunk
WholeTextChunk(t, strat, source) ==
    Chunk(t, 0, ByteLen(t), 0, ByteLen(t), 0, strat, None, None, source)

\* lines 892 and 920: char_position - chunk_text.len() - current_chunk_lines.len()
\* goes below zero when the chunk has more lines than bytes before it plus one
HeadingStartUnderflows(current_chunk_lines, char_position) ==
    char_position - ByteLen(JoinWith(current_chunk_lines, <<"\n">>))
        - Len(current_chunk_lines) < 0

\* lines 891-905 and 919-933
HeadingChunk(current_chunk_lines, char_position, chunk_index, first_line, last_line) ==
    LET chunk_text == JoinWith(current_chunk_lines, <<"\n">>)
        chunk_start == WrappingUsize(char_position - ByteLen(chunk_text)
                                       - Len(current_chunk_lines) + 1)
    IN  Chunk(chunk_text, chunk_start, char_position - 1, chunk_index,
              ByteLen(chunk_text), 0, "heading-based", None, None,
              Some(<<"lines", first_line, last_line>>))

\* lines 845-872
HeadingEnter ==
    /\ strategy = "heading-based"
    /\ pc = "start"
    /\ LET levels == HeadingLevels(cfg.heading_levels)
       IN  IF levels = {}
           THEN /\ pc' = "done"
                /\ loc' = loc
                /\ chunks' = <<WholeTextChunk(text, "heading-based", None)>>
           ELSE /\ pc' = "loop"
                /\ loc' = [levels |-> levels, lines |-> Lines(text),
                           current_chunk_lines |-> <<>>, chunk_start_line |-> 0,
                           chunk_index |-> 0, char_position |-> 0, line_idx |-> 0]
                /\ chunks' = <<>>
    /\ UNCHANGED <<strategy, text, cfg>>

\* lines 874-915: one line of the text.  A chunk start below zero aborts the
\* call where overflow checks are compiled in and wraps where they are not.
HeadingLoop ==
    /\ strategy = "heading-based"
    /\ pc = "loop"
    /\ loc.line_idx < Len(loc.lines)
    /\ LET line == loc.lines[loc.line_idx + 1]
           flush == IsHeading(line, loc.levels) /\ loc.current_chunk_lines # <<>>
           kept == IF flush THEN <<>> ELSE loc.current_chunk_lines
           advanced == [loc EXCEPT
                          !.chunk_index = IF flush THEN @ + 1 ELSE @,
                          !.chunk_start_line = IF flush THEN loc.line_idx ELSE @,
                          !.current_chunk_lines = Append(kept, line),
                          !.char_position = @ + ByteLen(line) + 1,
                          !.line_idx = @ + 1]
       IN  \/ /\ flush
              /\ HeadingStartUnderflows(loc.current_chunk_lines, loc.char_position)
              /\ pc' = "panic"
              /\ UNCHANGED <<loc, chunks>>
           \/ /\ pc' = pc
              /\ loc' = advanced
              /\ chunks' = IF flush
                           THEN Append(chunks,
                                  HeadingChunk(loc.current_chunk_lines, loc.char_position,
                                               loc.chunk_index, loc.chunk_start_line + 1,
                                               loc.line_idx))
                           ELSE chunks
    /\ UNCHANGED <<strategy, text, cfg>>

\* lines 917-952: the final chunk, the fallback chunk and the return
HeadingReturn ==
    /\ strategy = "heading-based"
    /\ pc = "loop"
    /\ loc.line_idx >= Len(loc.lines)
    /\ \/ /\ loc.current_chunk_lines # <<>>
          /\ HeadingStartUnderflows(loc.current_chunk_lines, loc.char_position)
          /\ pc' = "panic"
          /\ chunks' = chunks
       \/ /\ pc' = "done"
          /\ chunks' =
               IF loc.current_chunk_lines # <<>>
               THEN Append(chunks,
                      HeadingChunk(loc.current_chunk_lines, loc.char_position,
                                   loc.chunk_index, loc.chunk_start_line + 1,
                                   Len(loc.lines)))
               ELSE IF chunks = <<>>
               THEN <<WholeTextChunk(text, "heading-based",
                        Some(<<"entire document (no headers found)">>))>>
               ELSE chunks
    /\ UNCHANGED <<strategy, text, cfg, loc>>

HeadingTexts == SeqsUpTo({"A", "#", " ", "\n"}, MaxHeadingLen)

HeadingLevelTexts == SeqsUpTo({"1", "7", ",", " "}, MaxLevelsLen)

InitHeading ==
    /\ strategy = "heading-based"
    /\ text \in HeadingTexts
    /\ cfg \in [heading_levels : HeadingLevelTexts]
    /\ pc = "start"
    /\ loc = NotEntered
    /\ chunks = <<>>

NextHeading == HeadingEnter \/ HeadingLoop \/ HeadingReturn

SpecHeading == InitHeading /\ [][NextHeading]_vars


(***************************************************************************)
(* Dialogue: TextChunker::chunk_dialogue.  A speaker pattern is one of the *)
(* regular expressions below; the model knows of each whether regex's      *)
(* Regex::new accepts it and what its first capture group matches.         *)
(***************************************************************************)
MaxDialoguePieces == 3

\* the pattern chunk_text passes when the caller gives none (line 447)
DefaultSpeakerPattern == "^([A-Z][A-Za-z\\s]+):\\s*"

\* an unclosed group, which Regex::new rejects
UnclosedGroupPattern == "("

\* a pattern that compiles and has no capture group
NoGroupPattern == "^A:"

SpeakerPatterns == {DefaultSpeakerPattern, UnclosedGroupPattern, NoGroupPattern}

\* a Regex::new that accepted every pattern
RegexCompilesAlways(speaker_pattern) == TRUE

\* line 967: whether Regex::new(speaker_pattern) is Ok
RegexCompiles(speaker_pattern) == speaker_pattern # UnclosedGroupPattern

\* the end of the longest run of [A-Za-z\s] that starts at position from
RECURSIVE NameRunEnd(_, _)
NameRunEnd(line, from) ==
    IF from <= Len(line) /\ (IsAlphanumeric(line[from]) \/ IsWhitespace(line[from]))
    THEN NameRunEnd(line, from + 1)
    ELSE from - 1

\* lines 988-992: captures.get(1), trimmed.  The default pattern matches an
\* upper-case letter, one or more letters or spaces, and a colon.
DetectedSpeaker(speaker_pattern, line) ==
    IF speaker_pattern = DefaultSpeakerPattern
    THEN IF line # <<>> /\ IsUpper(line[1])
         THEN LET e == NameRunEnd(line, 2)
              IN  IF e >= 2 /\ e < Len(line) /\ line[e + 1] = ":"
                  THEN Some(Trim(SubSeq(line, 1, e)))
                  ELSE None
         ELSE None
    ELSE None

\* lines 1000-1016 and 1036-1052
DialogueChunk(current_chunk_lines, chunk_start_pos, chunk_index, current_speaker, first_line, last_line) ==
    LET chunk_text == JoinWith(current_chunk_lines, <<"\n">>)
    IN  Chunk(chunk_text, chunk_start_pos, chunk_start_pos + ByteLen(chunk_text),
              chunk_index, ByteLen(chunk_text), 0, "dialogue", None, None,
              Some(<<"speaker",
                     IF current_speaker = None THEN <<"Unknown">> ELSE current_speaker[1],
                     first_line, last_line>>))

\* lines 986-1030: what one line does to the locals and to the chunks
DialogueStep(st, line, speaker_pattern) ==
    LET detected_speaker == DetectedSpeaker(speaker_pattern, line)
        flush == /\ detected_speaker # None
                 /\ st.current_speaker # detected_speaker
                 /\ st.current_chunk_lines # <<>>
        kept == IF flush THEN <<>> ELSE st.current_chunk_lines
    IN  [st EXCEPT
           !.chunks = IF flush
                      THEN Append(@, DialogueChunk(st.current_chunk_lines,
                                       st.chunk_start_pos, st.chunk_index,
                                       st.current_speaker, st.chunk_start_line + 1,
                                       st.line_idx))
                      ELSE @,
           !.chunk_index = IF flush THEN @ + 1 ELSE @,
           !.chunk_start_pos = IF flush THEN st.char_position ELSE @,
           !.chunk_start_line = IF flush THEN st.line_idx ELSE @,
           !.current_speaker = IF detected_speaker # None THEN detected_speaker ELSE @,
           !.current_chunk_lines = Append(kept, line),
           !.char_position = @ + ByteLen(line) + 1,
           !.line_idx = @ + 1]

\* lines 957-984
DialogueEnter ==
    /\ strategy = "dialogue"
    /\ pc = "start"
    /\ IF RegexCompiles(cfg.speaker_pattern)
       THEN /\ pc' = "loop"
            /\ loc' = [lines |-> Lines(text), current_chunk_lines |-> <<>>,
                       current_speaker |-> None, chunk_index |-> 0,
                       char_position |-> 0, chunk_start_line |-> 0,
                       chunk_start_pos |-> 0, line_idx |-> 0, chunks |-> <<>>]
            /\ chunks' = <<>>
       ELSE /\ pc' = "done"
            /\ loc' = loc
            /\ chunks' = <<WholeTextChunk(text, "dialogue",
                             Some(<<"regex parse error - treated as single chunk">>))>>
    /\ UNCHANGED <<strategy, text, cfg>>

\* lines 986-1030
DialogueLoop ==
    /\ strategy = "dialogue"
    /\ pc = "loop"
    /\ loc.line_idx < Len(loc.lines)
    /\ loc' = DialogueStep(loc, loc.lines[loc.line_idx + 1], cfg.speaker_pattern)
    /\ chunks' = loc'.chunks
    /\ UNCHANGED <<strategy, text, cfg, pc>>

\* lines 1032-1071
DialogueReturn ==
    /\ strategy = "dialogue"
    /\ pc = "loop"
    /\ loc.line_idx >= Len(loc.lines)
    /\ pc' = "done"
    /\ chunks' =
         IF loc.current_chunk_lines # <<>>
         THEN Append(chunks,
                DialogueChunk(loc.current_chunk_lines, loc.chunk_start_pos,
                              loc.chunk_index, loc.current_speaker,
                              loc.chunk_start_line + 1, Len(loc.lines)))
         ELSE IF chunks = <<>>
         THEN <<WholeTextChunk(text, "dialogue",
                  Some(<<"no speakers detected - treated as single chunk">>))>>
         ELSE chunks
    /\ UNCHANGED <<strategy, text, cfg, loc>>

DialoguePieces ==
    { <<"A", "a", ":">>, <<"B", "a", ":">>, <<"A">>, <<" ">>, <<"\n">> }

DialogueTexts == {Flatten(ps) : ps \in SeqsUpTo(DialoguePieces, MaxDialoguePieces)}

InitDialogue ==
    /\ strategy = "dialogue"
    /\ text \in DialogueTexts
    /\ cfg \in [speaker_pattern : SpeakerPatterns]
    /\ pc = "start"
    /\ loc = NotEntered
    /\ chunks = <<>>

NextDialogue == DialogueEnter \/ DialogueLoop \/ DialogueReturn

SpecDialogue == InitDialogue /\ [][NextDialogue]_vars


(***************************************************************************)
(* ListAware: TextChunker::chunk_list_aware                                *)
(***************************************************************************)
MaxListPieces == 4

MaxListSize == 3

\* the number of leading whitespace characters
LeadingSpaces(line) == Len(line) - Len(TrimStart(line))

\* the bullet characters of the patterns; "U+2022" stands for the one
\* character of that code point
BulletCharacters == {"U+2022", "-", "*", "+"}

\* a bullet character and \s+ at the head of r
BulletAtHead(r) ==
    Len(r) >= 2 /\ r[1] \in BulletCharacters /\ IsWhitespace(r[2])

\* the number of leading decimal digits
RECURSIVE DigitRun(_)
DigitRun(r) == IF r # <<>> /\ IsDigit(Head(r)) THEN 1 + DigitRun(Tail(r)) ELSE 0

\* \d+\.\s+ at the head of r
NumberAtHead(r) ==
    LET d == DigitRun(r)
    IN  d >= 1 /\ Len(r) >= d + 2 /\ r[d + 1] = "." /\ IsWhitespace(r[d + 2])

\* lines 1086-1095: the four patterns, each anchored at the start of the line
IsListItem(line) ==
    \/ BulletAtHead(TrimStart(line))
    \/ NumberAtHead(TrimStart(line))
    \/ (LeadingSpaces(line) >= 2 /\ BulletAtHead(TrimStart(line)))
    \/ (LeadingSpaces(line) >= 2 /\ NumberAtHead(TrimStart(line)))

\* lines 1097-1098
IsListContinuation(line) ==
    \/ Trim(line) = <<>>
    \/ (StartsWith(line, <<" ", " ">>) /\ ~IsListItem(line))

\* lines 1141, 1167, 1299, 1329: the lines' lengths, one more for each
RECURSIVE LineSizes(_)
LineSizes(ls) ==
    IF ls = <<>> THEN 0 ELSE ByteLen(Head(ls)) + 1 + LineSizes(Tail(ls))

\* the chunk a list-aware or table-aware flush pushes
BlockChunk(current_chunk_lines, chunk_start_pos, chunk_index, strat, source) ==
    LET chunk_text == JoinWith(current_chunk_lines, <<"\n">>)
    IN  Chunk(chunk_text, chunk_start_pos, chunk_start_pos + ByteLen(chunk_text),
              chunk_index, ByteLen(chunk_text), 0, strat, None, None, source)

\* lines 1106-1122 and the like: the flush of current_chunk_lines at a line
BlockFlush(st, current_chunk_lines, strat, kind) ==
    [st EXCEPT
       !.chunks = Append(@, BlockChunk(current_chunk_lines, st.chunk_start_pos,
                              st.chunk_index, strat,
                              Some(<<kind, st.chunk_start_line + 1, st.line_idx>>))),
       !.chunk_index = @ + 1,
       !.chunk_start_pos = st.char_position,
       !.chunk_start_line = st.line_idx,
       !.current_chunk_lines = <<>>]

\* a list run cut before each further line of it
ListSplitsRun(st, line) ==
    [BlockFlush(st, st.current_chunk_lines \o st.current_list_items,
                "list-aware", "list content")
       EXCEPT !.current_list_items = <<line>>]

\* lines 1130-1132: a further item or a continuation of the open list run
ListKeepsRun(st, line) == [st EXCEPT !.current_list_items = Append(@, line)]

\* lines 1091-1193: what one line does to the locals and to the chunks
ListStep(st, line, target_size) ==
    LET is_list_item == IsListItem(line)
        is_continuation == IsListContinuation(line)
        joined == JoinWith(st.current_chunk_lines, <<"\n">>)
        with_list == st.current_chunk_lines \o st.current_list_items
        after ==
          IF is_list_item /\ ~st.in_list
          THEN LET flushed ==
                     IF /\ st.current_chunk_lines # <<>>
                        /\ ByteLen(joined) + ByteLen(line) > target_size
                     THEN BlockFlush(st, st.current_chunk_lines, "list-aware",
                                     "text content")
                     ELSE st
               IN  [flushed EXCEPT !.in_list = TRUE,
                                   !.current_list_items = Append(@, line)]
          ELSE IF st.in_list /\ (is_list_item \/ is_continuation)
          THEN ListKeepsRun(st, line)
          ELSE IF st.in_list /\ ~is_list_item /\ ~is_continuation
          THEN LET ended == [st EXCEPT !.current_chunk_lines = with_list,
                                       !.current_list_items = <<>>,
                                       !.in_list = FALSE]
                   flushed ==
                     IF /\ LineSizes(with_list) + ByteLen(line) > target_size
                        /\ with_list # <<>>
                     THEN BlockFlush(ended, with_list, "list-aware", "list content")
                     ELSE ended
               IN  [flushed EXCEPT !.current_chunk_lines = Append(@, line)]
          ELSE LET flushed ==
                     IF /\ LineSizes(st.current_chunk_lines) + ByteLen(line) > target_size
                        /\ st.current_chunk_lines # <<>>
                     THEN BlockFlush(st, st.current_chunk_lines, "list-aware",
                                     "text content")
                     ELSE st
               IN  [flushed EXCEPT !.current_chunk_lines = Append(@, line)]
    IN  [after EXCEPT !.char_position = @ + ByteLen(line) + 1,
                      !.line_idx = @ + 1]

\* lines 1195-1232 and 1357-1394: the lines left over, the final chunk and
\* the fallback chunk
BlockFinish(st, pending, t, strat) ==
    LET current_chunk_lines == st.current_chunk_lines \o pending
    IN  IF current_chunk_lines # <<>>
        THEN Append(st.chunks,
               BlockChunk(current_chunk_lines, st.chunk_start_pos, st.chunk_index,
                          strat, Some(<<"final content", st.chunk_start_line + 1,
                                        Len(st.lines)>>)))
        ELSE IF st.chunks = <<>>
        THEN <<WholeTextChunk(t, strat, Some(<<"entire document">>))>>
        ELSE st.chunks

\* lines 1075-1083
ListEnter ==
    /\ strategy = "list-aware"
    /\ pc = "start"
    /\ pc' = "loop"
    /\ loc' = [lines |-> Lines(text), current_chunk_lines |-> <<>>,
               current_list_items |-> <<>>, in_list |-> FALSE, chunk_index |-> 0,
               char_position |-> 0, chunk_start_pos |-> 0, chunk_start_line |-> 0,
               line_idx |-> 0, chunks |-> <<>>]
    /\ chunks' = <<>>
    /\ UNCHANGED <<strategy, text, cfg>>

\* lines 1091-1193
ListLoop ==
    /\ strategy = "list-aware"
    /\ pc = "loop"
    /\ loc.line_idx < Len(loc.lines)
    /\ loc' = ListStep(loc, loc.lines[loc.line_idx + 1], cfg.size)
    /\ chunks' = loc'.chunks
    /\ UNCHANGED <<strategy, text, cfg, pc>>

\* lines 1195-1232
ListReturn ==
    /\ strategy = "list-aware"
    /\ pc = "loop"
    /\ loc.line_idx >= Len(loc.lines)
    /\ pc' = "done"
    /\ chunks' = BlockFinish(loc, IF loc.in_list THEN loc.current_list_items ELSE <<>>,
                             text, "list-aware")
    /\ UNCHANGED <<strategy, text, cfg, loc>>

ListPieces ==
    { <<"-", " ">>, <<"1", ".", " ">>, <<"A">>, <<" ">>, <<"\n">> }

ListTexts == {Flatten(ps) : ps \in SeqsUpTo(ListPieces, MaxListPieces)}

InitListAware ==
    /\ strategy = "list-aware"
    /\ text \in ListTexts
    /\ cfg \in [size : 0..MaxListSize, overlap : {0}]
    /\ pc = "start"
    /\ loc = NotEntered
    /\ chunks = <<>>

NextListAware == ListEnter \/ ListLoop \/ ListReturn

SpecListAware == InitListAware /\ [][NextListAware]_vars

(***************************************************************************)
(* TableAware: TextChunker::chunk_table_aware                              *)
(***************************************************************************)
MaxTableLen == 4

MaxTableSize == 3

\* line 1247: ^\s*\|.*\|\s*$
IsMarkdownTableRow(line) ==
    LET t == Trim(line)
    IN  Len(t) >= 2 /\ t[1] = "|" /\ t[Len(t)] = "|"

\* line 1248: ^\s*\|[\s\-\|:]+\|\s*$
IsMarkdownSeparator(line) ==
    LET t == Trim(line)
    IN  /\ Len(t) >= 3 /\ t[1] = "|" /\ t[Len(t)] = "|"
        /\ \A k \in 2..(Len(t) - 1) : IsWhitespace(t[k]) \/ t[k] \in {"-", "|", ":"}

\* line 1249: ^[^,]*,[^,]*
IsCsvLine(line) == \E k \in 1..Len(line) : line[k] = ","

\* line 1250: ^[^\t]*\t[^\t]*
IsTsvLine(line) == \E k \in 1..Len(line) : line[k] = "\t"

\* lines 1253-1256
IsTableLine(line) ==
    \/ IsMarkdownTableRow(line) \/ IsMarkdownSeparator(line)
    \/ IsCsvLine(line)
    \/ IsTsvLine(line)

\* lines 1252-1355: what one line does to the locals and to the chunks
TableStep(st, line, target_size) ==
    LET is_table_line == IsTableLine(line)
        joined == JoinWith(st.current_chunk_lines, <<"\n">>)
        with_table == st.current_chunk_lines \o st.table_lines
        after ==
          IF is_table_line /\ ~st.in_table
          THEN LET flushed ==
                     IF /\ st.current_chunk_lines # <<>>
                        /\ ByteLen(joined) + ByteLen(line) > target_size
                     THEN BlockFlush(st, st.current_chunk_lines, "table-aware",
                                     "text content")
                     ELSE st
               IN  [flushed EXCEPT !.in_table = TRUE,
                                   !.table_lines = Append(@, line)]
          ELSE IF st.in_table /\ is_table_line
          THEN [st EXCEPT !.table_lines = Append(@, line)]
          ELSE IF st.in_table /\ (~is_table_line /\ Trim(line) # <<>>)
          THEN LET ended == [st EXCEPT !.current_chunk_lines = with_table,
                                       !.table_lines = <<>>,
                                       !.in_table = FALSE]
                   flushed ==
                     IF /\ LineSizes(with_table) + ByteLen(line) > target_size
                        /\ with_table # <<>>
                     THEN BlockFlush(ended, with_table, "table-aware", "table content")
                     ELSE ended
               IN  [flushed EXCEPT !.current_chunk_lines = Append(@, line)]
          ELSE IF st.in_table /\ Trim(line) = <<>>
          THEN [st EXCEPT !.table_lines = Append(@, line)]
          ELSE LET flushed ==
                     IF /\ LineSizes(st.current_chunk_lines) + ByteLen(line) > target_size
                        /\ st.current_chunk_lines # <<>>
                     THEN BlockFlush(st, st.current_chunk_lines, "table-aware",
                                     "text content")
                     ELSE st
               IN  [flushed EXCEPT !.current_chunk_lines = Append(@, line)]
    IN  [after EXCEPT !.char_position = @ + ByteLen(line) + 1,
                      !.line_idx = @ + 1]

\* lines 1236-1244
TableEnter ==
    /\ strategy = "table-aware"
    /\ pc = "start"
    /\ pc' = "loop"
    /\ loc' = [lines |-> Lines(text), current_chunk_lines |-> <<>>,
               in_table |-> FALSE, table_lines |-> <<>>, chunk_index |-> 0,
               char_position |-> 0, chunk_start_pos |-> 0, chunk_start_line |-> 0,
               line_idx |-> 0, chunks |-> <<>>]
    /\ chunks' = <<>>
    /\ UNCHANGED <<strategy, text, cfg>>

\* lines 1252-1355
TableLoop ==
    /\ strategy = "table-aware"
    /\ pc = "loop"
    /\ loc.line_idx < Len(loc.lines)
    /\ loc' = TableStep(loc, loc.lines[loc.line_idx + 1], cfg.size)
    /\ chunks' = loc'.chunks
    /\ UNCHANGED <<strategy, text, cfg, pc>>

\* lines 1357-1394
TableReturn ==
    /\ strategy = "table-aware"
    /\ pc = "loop"
    /\ loc.line_idx >= Len(loc.lines)
    /\ pc' = "done"
    /\ chunks' = BlockFinish(loc, IF loc.in_table THEN loc.table_lines ELSE <<>>,
                             text, "table-aware")
    /\ UNCHANGED <<strategy, text, cfg, loc>>

TableTexts == SeqsUpTo({"A", "|", ",", " ", "\n"}, MaxTableLen)

InitTableAware ==
    /\ strategy = "table-aware"
    /\ text \in TableTexts
    /\ cfg \in [size : 0..MaxTableSize, overlap : {0}]
    /\ pc = "start"
    /\ loc = NotEntered
    /\ chunks = <<>>

NextTableAware == TableEnter \/ TableLoop \/ TableReturn

SpecTableAware == InitTableAware /\ [][NextTableAware]_vars

\* ListAware and TableAware, the two segmenters that buffer runs
InitBlocks == InitListAware \/ InitTableAware

NextBlocks == NextListAware \/ NextTableAware

SpecBlocks == InitBlocks /\ [][NextBlocks]_vars

(***************************************************************************)
(* The four structure-aware segmenters under one specification.            *)
(***************************************************************************)
InitStructural == InitHeading \/ InitDialogue \/ InitListAware \/ InitTableAware

NextStructural == NextHeading \/ NextDialogue \/ NextListAware \/ NextTableAware

SpecStructural == InitStructural /\ [][NextStructural]_vars


\* the input holds none of the structural markers its segmenter recognises
NoStructuralMarkers ==
    LET lines == Lines(text)
    IN  CASE strategy = "heading-based" ->
               \A k \in 1..Len(lines) :
                   ~IsHeading(lines[k], HeadingLevels(cfg.heading_levels))
          [] strategy = "dialogue" ->
               \A k \in 1..Len(lines) :
                   DetectedSpeaker(cfg.speaker_pattern, lines[k]) = None
          [] strategy = "list-aware" ->
               \A k \in 1..Len(lines) : ~IsListItem(lines[k])
          [] strategy = "table-aware" ->
               \A k \in 1..Len(lines) : ~IsTableLine(lines[k])
          [] OTHER -> FALSE

(***************************************************************************)
(* C11: Heading, Dialogue, ListAware and TableAware return, for an input   *)
(* without any structural marker and for every target size, exactly one   *)
(* chunk, whose content is the trimmed whole input.                        *)
(***************************************************************************)
C11_DegradeToSingleChunk ==
    NoStructuralMarkers =>
        /\ pc # "panic"
        /\ pc = "done" => /\ Len(chunks) = 1
                          /\ chunks[1].content = Trim(text)

\* the input has no line that starts, after its indentation, with "#"
NoHashLines ==
    \A k \in 1..Len(Lines(text)) :
        LET trimmed_line == TrimStart(Lines(text)[k])
        IN  trimmed_line = <<>> \/ Head(trimmed_line) # "#"

(***************************************************************************)
(* C12: Heading returns, for an input without "#" header lines and for any *)
(* heading_levels, one chunk equal to the whole document whose source is   *)
(* tagged "no headers found".                                              *)
(***************************************************************************)
C12_HeadingNoHeadersTagged ==
    (strategy = "heading-based" /\ NoHashLines) =>
        /\ pc # "panic"
        /\ pc = "done" =>
             /\ Len(chunks) = 1
             /\ chunks[1].content = text
             /\ chunks[1].source = Some(<<"entire document (no headers found)">>)

\* the call's pattern or level list cannot be used at all
UnusableConfiguration ==
    \/ strategy = "heading-based" /\ HeadingLevels(cfg.heading_levels) = {}
    \/ strategy = "dialogue" /\ ~RegexCompiles(cfg.speaker_pattern)

(***************************************************************************)
(* C13: Dialogue with a speaker_pattern that does not compile, and Heading *)
(* with a heading_levels list without any level in 1..6, do not fail: each *)
(* returns exactly one chunk, of index 0, whose content is the entire      *)
(* input unchanged.                                                        *)
(***************************************************************************)
C13_UnusableConfigurationDegrades ==
    (strategy \in {"heading-based", "dialogue"}
       /\ (strategy = "heading-based" => HeadingLevels(cfg.heading_levels) = {})
       /\ (strategy = "dialogue" => cfg.speaker_pattern = UnclosedGroupPattern)) =>
        /\ pc \in {"start", "done"}
        /\ pc = "done" => /\ Len(chunks) = 1
                          /\ chunks[1].index = 0
                          /\ chunks[1].content = text

\* a returned Heading call whose level list holds only the level 7 and whose
\* text has a "#" line followed by another line
C13_Witness ==
    /\ strategy = "heading-based"
    /\ pc = "done"
    /\ cfg.heading_levels = <<"7">>
    /\ text = <<"#", "\n", "A">>
    /\ Len(chunks) = 1


(***************************************************************************)
(* C14: when every embedding request fails (nothing answers at the         *)
(* provider's address), Smart returns exactly the chunks the Sentence      *)
(* segmenter produces for the original input with the same target size.    *)
(***************************************************************************)
C14_SmartFallsBackToSentence ==
    (strategy = "smart" /\ cfg.ollama_url = UnreachableUrl /\ pc = "done") =>
        chunks = ChunkSentence(text, cfg.size)

(***************************************************************************)
(* C16: Semantic used standalone fails when the embedding provider is      *)
(* unavailable: the call on a text with sentences to embed does not return *)
(* a result.                                                               *)
(***************************************************************************)
C16_StandaloneSemanticFails ==
    (strategy = "semantic" /\ cfg.ollama_url = UnreachableUrl
       /\ UnicodeSentences(text) # <<>>) =>
        pc # "done"


(***************************************************************************)
(* LLMBoundary: TextChunker::chunk_llm, call_llm, extract_chunks_from_tags *)
(* loc.sent is the list of the requests the call has sent so far, each     *)
(* with the collaborator it went to and whether it was answered usably.    *)
(***************************************************************************)
MaxLlmLen == 1

MaxResponsePieces == 3

TagStart == <<"<", "C", "H", "U", "N", "K", "_", "S", "T", "A", "R", "T", ">">>

TagEnd == <<"<", "C", "H", "U", "N", "K", "_", "E", "N", "D", ">">>

\* lines 1817-1822: the first capture group of each match of
\* (?s)<CHUNK_START>\s*(.*?)\s*<CHUNK_END> from offset from on, trimmed; a
\* match runs from a start tag to the first end tag after it, and the search
\* goes on behind the match
RECURSIVE TaggedSpansFrom(_, _)
TaggedSpansFrom(tagged_text, from) ==
    LET s == FindFrom(tagged_text, TagStart, from)
    IN  IF s = None THEN <<>>
        ELSE LET e == FindFrom(tagged_text, TagEnd, s[1] + Len(TagStart))
             IN  IF e = None THEN <<>>
                 ELSE <<Trim(SubSeq(tagged_text, s[1] + Len(TagStart) + 1, e[1]))>>
                        \o TaggedSpansFrom(tagged_text, e[1] + Len(TagEnd))

TaggedSpans(tagged_text) == TaggedSpansFrom(tagged_text, 0)

\* lines 1828-1839 and 1849-1860
LlmChunk(content, current_pos, chunk_index, embedding) ==
    Chunk(content, current_pos, current_pos + ByteLen(content), chunk_index,
          ByteLen(content), 0, "llm", None, embedding, None)

\* an extraction that kept the empty spans too
LlmKeepsEverySpan(content) == TRUE

\* line 1824: whether a captured span becomes a chunk
LlmKeepsSpan(content) == content # <<>>

\* the texts the LLM provider may answer with
LlmResponsePieces ==
    {TagStart, TagEnd, <<"A">>, <<" ">>,
     TagStart \o <<"A">> \o TagEnd, TagStart \o <<" ", "B">> \o TagEnd,
     TagStart \o TagEnd}

LlmResponses ==
    {Flatten(ps) : ps \in SeqsUpTo(LlmResponsePieces, MaxResponsePieces)}

\* call_llm (lines 1779-1809): the response text, or a failure (sending
\* fails, non-success status, undecodable body)
LlmReplies(llm_url) ==
    IF llm_url = UnreachableUrl THEN {None}
    ELSE {Some(r) : r \in LlmResponses} \cup {None}

\* a chunk_llm that went on after a failed LLM request
LlmCallGoesOn(reply) == "extract"

\* line 803: the ? after call_llm returns the error to chunk_text, which
\* returns it to its caller (line 445)
LlmCallOutcome(reply) == IF reply = None THEN "error" ELSE "extract"

\* the text chunk_llm goes on with
ResponseText(reply) == IF reply = None THEN <<>> ELSE reply[1]

\* lines 803-806 and 1811-1818: the one LLM request and its answer
LlmCall ==
    /\ strategy = "llm"
    /\ pc = "start"
    /\ \E reply \in LlmReplies(cfg.llm_url) :
           /\ pc' = LlmCallOutcome(reply)
           /\ IF pc' = "error"
              THEN loc' = [sent |-> <<[to |-> "llm", ok |-> reply # None]>>]
              ELSE loc' = [sent |-> <<[to |-> "llm", ok |-> reply # None]>>,
                           tagged_response |-> ResponseText(reply),
                           spans |-> TaggedSpans(ResponseText(reply)),
                           k |-> 1, current_pos |-> 0, chunk_index |-> 0]
    /\ chunks' = <<>>
    /\ UNCHANGED <<strategy, text, cfg>>

\* lines 1820-1845: one match of the pattern
LlmExtract ==
    /\ strategy = "llm"
    /\ pc = "extract"
    /\ loc.k <= Len(loc.spans)
    /\ LET content == loc.spans[loc.k]
       IN  IF LlmKeepsSpan(content)
           THEN \E embedding \in ProviderReplies(cfg.ollama_url) :
                  /\ chunks' = Append(chunks,
                        LlmChunk(content, loc.current_pos, loc.chunk_index, embedding))
                  /\ loc' = [loc EXCEPT
                        !.sent = Append(@, [to |-> "embed", ok |-> embedding # None]),
                        !.current_pos = @ + ByteLen(content),
                        !.chunk_index = @ + 1,
                        !.k = @ + 1]
           ELSE /\ chunks' = chunks
                /\ loc' = [loc EXCEPT !.k = @ + 1]
    /\ UNCHANGED <<strategy, text, cfg, pc>>

\* lines 1847-1864: the whole response as the only chunk when no chunk was
\* extracted, and the return
LlmReturn ==
    /\ strategy = "llm"
    /\ pc = "extract"
    /\ loc.k > Len(loc.spans)
    /\ pc' = "done"
    /\ IF chunks = <<>>
       THEN \E embedding \in ProviderReplies(cfg.ollama_url) :
              /\ chunks' = <<LlmChunk(loc.tagged_response, 0, 0, embedding)>>
              /\ loc' = [loc EXCEPT
                    !.sent = Append(@, [to |-> "embed", ok |-> embedding # None])]
       ELSE UNCHANGED <<chunks, loc>>
    /\ UNCHANGED <<strategy, text, cfg>>

LlmTexts == SeqsUpTo({"A", " "}, MaxLlmLen)

InitLlm ==
    /\ strategy = "llm"
    /\ text \in LlmTexts
    /\ cfg \in [llm_url : OllamaUrls, ollama_url : OllamaUrls]
    /\ pc = "start"
    /\ loc = NotEntered
    /\ chunks = <<>>

NextLlm == LlmCall \/ LlmExtract \/ LlmReturn

SpecLlm == InitLlm /\ [][NextLlm]_vars


(***************************************************************************)
(* C17: LLMBoundary sends exactly one LLM request per call, before any     *)
(* embedding request; when that request fails the call returns an error,   *)
(* with no chunk and without any embedding request.                        *)
(***************************************************************************)
C17_OneLlmRequestFailureIsFatal ==
    (strategy = "llm" /\ pc # "start") =>
        /\ loc.sent[1].to = "llm"
        /\ \A i \in 2..Len(loc.sent) : loc.sent[i].to = "embed"
        /\ ~loc.sent[1].ok <=> pc = "error"
        /\ pc = "error" => (chunks = <<>> /\ Len(loc.sent) = 1)

\* a call whose LLM provider was reached and did not answer usably
C17_Witness ==
    /\ strategy = "llm"
    /\ pc = "error"
    /\ cfg.llm_url = ReachableUrl
    /\ loc.sent = <<[to |-> "llm", ok |-> FALSE]>>

\* the spans of the response that hold text, in response order
KeptSpans(tagged_text) ==
    SelectSeq(TaggedSpans(tagged_text), LAMBDA content : content # <<>>)

(***************************************************************************)
(* C18: each non-empty <CHUNK_START>...<CHUNK_END> span of the response    *)
(* becomes one chunk, in response order, and the empty spans are dropped;  *)
(* when no tags are found the result is one chunk holding the entire       *)
(* response; a successful LLM call yields at least one chunk.              *)
(***************************************************************************)
C18_TagExtraction ==
    (strategy = "llm" /\ pc = "done") =>
        /\ Contents(chunks) = IF TaggedSpans(loc.tagged_response) = <<>>
                              THEN <<loc.tagged_response>>
                              ELSE KeptSpans(loc.tagged_response)
        /\ Len(chunks) >= 1

(***************************************************************************)
(* C18, as the code has it: the entire response becomes the one chunk      *)
(* whenever no span holding text was extracted, that is, also when tags    *)
(* were found and every span between them is empty.                        *)
(***************************************************************************)
C18_TagExtractionOrWholeResponse ==
    (strategy = "llm" /\ pc = "done") =>
        /\ Contents(chunks) = IF KeptSpans(loc.tagged_response) = <<>>
                              THEN <<loc.tagged_response>>
                              ELSE KeptSpans(loc.tagged_response)
        /\ Len(chunks) >= 1

\* a response with two spans holding text and an empty span between them
C18_Witness ==
    /\ strategy = "llm"
    /\ pc = "done"
    /\ TaggedSpans(loc.tagged_response) = << <<"A">>, <<>>, <<"B">> >>
    /\ Contents(chunks) = << <<"A">>, <<"B">> >>


(***************************************************************************)
(* The two segmenters that recover from embedding failures, under one      *)
(* specification.                                                          *)
(***************************************************************************)
InitProviders == InitSemantic \/ InitLlm

NextProviders == NextSemantic \/ NextLlm

SpecProviders == InitProviders /\ [][NextProviders]_vars

(***************************************************************************)
(* C15: a failed embedding request never aborts the call.  Semantic puts a *)
(* zero vector in the place of each embedding it did not get and returns   *)
(* chunks that cover every sentence; LLMBoundary emits the chunk of a span *)
(* whose embedding request failed, without embedding, and succeeds.        *)
(***************************************************************************)
C15_EmbeddingFailuresRecovered ==
    /\ (strategy = "semantic" /\ pc \in {"group", "done"} /\ loc # NotEntered) =>
          /\ Len(loc.embeddings) = Len(loc.sentences)
          /\ \A i \in 1..Len(loc.embeddings) :
                 /\ loc.embeddings[i] \in ProviderVectors \cup {ZeroVector}
                 /\ cfg.ollama_url = UnreachableUrl => loc.embeddings[i] = ZeroVector
    /\ (strategy = "semantic" /\ pc = "done") =>
          /\ JoinWith(Contents(chunks), <<" ">>)
               = JoinWith(UnicodeSentences(text), <<" ">>)
          /\ \A i \in 1..Len(chunks) :
                 /\ chunks[i].embedding # None
                 /\ cfg.ollama_url = UnreachableUrl =>
                        chunks[i].embedding = Some(ZeroVector)
    /\ (strategy = "llm" /\ pc = "done") =>
          /\ Len(chunks) >= 1
          /\ Len(loc.sent) = Len(chunks) + 1
          /\ \A i \in 1..Len(chunks) :
                 chunks[i].embedding = None <=> ~loc.sent[i + 1].ok
    /\ strategy = "semantic" => pc # "error"
    /\ (strategy = "llm" /\ pc = "error") => ~loc.sent[1].ok

\* a returned Semantic call with two chunks, of which the first carries the
\* zero vector of a failed request and the second a vector of the provider
C15_Witness ==
    /\ strategy = "semantic"
    /\ pc = "done"
    /\ Len(chunks) = 2
    /\ chunks[1].embedding = Some(ZeroVector)
    /\ chunks[2].embedding = Some(<<1, 0>>)

(***************************************************************************)
(* C19: outside FixedWindow the chunks of a result do not overlap and the  *)
(* total length of their contents does not exceed the length of the input  *)
(* (stated for the segmenters that put no separator of their own between   *)
(* the units of a chunk: Sentence, Recursive and LLMBoundary).             *)
(***************************************************************************)
C19_ContentsWithinOriginalLength ==
    (strategy \in {"sentence", "recursive", "llm"} /\ pc = "done") =>
        /\ \A i \in 1..Len(chunks) : chunks[i].overlap = 0
        /\ SumSeq([i \in 1..Len(chunks) |-> ByteLen(chunks[i].content)])
             <= ByteLen(text)


(***************************************************************************)
(* Concurrent invocations.  Two chunk_text calls run chunk_sentence at the *)
(* same time, their loop iterations interleaved in any order.  Under this  *)
(* specification every variable is a function of the call: text[c] and     *)
(* cfg[c] are the arguments of call c, loc[c] its locals (lines 539-543),   *)
(* chunks[c] its Vec<Chunk>.  A TextChunker holds a client and an address   *)
(* (lines 404-407) and no call writes to either.                           *)
(***************************************************************************)
MaxConcurrentPieces == 2

MaxConcurrentSize == 1

Calls == {"first", "second"}

\* accumulators that all the calls shared: those of the first call
SharedAccumulators(c) ==
    [chunks |-> chunks["first"], current_chunk |-> loc["first"].current_chunk,
     index |-> loc["first"].index]

\* lines 540-543: the accumulators call c works on are its own locals
CallAccumulators(c) ==
    [chunks |-> chunks[c], current_chunk |-> loc[c].current_chunk,
     index |-> loc[c].index]

\* lines 539-543 in call c
CallEnter(c) ==
    /\ pc[c] = "start"
    /\ pc' = [pc EXCEPT ![c] = "loop"]
    /\ loc' = [loc EXCEPT ![c] = [units |-> UnicodeSentences(text[c]), i |-> 1,
                                  current_chunk |-> <<>>, index |-> 0]]
    /\ UNCHANGED <<strategy, text, cfg, chunks>>

\* lines 545-569 in call c: one iteration
CallLoop(c) ==
    /\ pc[c] = "loop"
    /\ loc[c].i <= Len(loc[c].units)
    /\ LET st == SentenceStep(CallAccumulators(c), loc[c].units[loc[c].i], cfg[c].size)
       IN  /\ chunks' = [chunks EXCEPT ![c] = st.chunks]
           /\ loc' = [loc EXCEPT ![c] = [@ EXCEPT !.i = @ + 1,
                                                  !.current_chunk = st.current_chunk,
                                                  !.index = st.index]]
    /\ UNCHANGED <<strategy, text, cfg, pc>>

\* lines 571-587 in call c: the final chunk and the return
CallReturn(c) ==
    /\ pc[c] = "loop"
    /\ loc[c].i > Len(loc[c].units)
    /\ chunks' = [chunks EXCEPT ![c] = SentenceFinish(CallAccumulators(c))]
    /\ pc' = [pc EXCEPT ![c] = "done"]
    /\ UNCHANGED <<strategy, text, cfg, loc>>

ConcurrentPieces == { <<"A", ".", " ">>, <<"A">>, <<" ">> }

ConcurrentTexts ==
    {Flatten(ps) : ps \in SeqsUpTo(ConcurrentPieces, MaxConcurrentPieces)}

InitConcurrent ==
    /\ strategy = [c \in Calls |-> "sentence"]
    /\ text \in [Calls -> ConcurrentTexts]
    /\ cfg \in [Calls -> [size : 0..MaxConcurrentSize, overlap : {0}]]
    /\ pc = [c \in Calls |-> "start"]
    /\ loc = [c \in Calls |-> [units |-> <<>>, i |-> 1, current_chunk |-> <<>>,
                               index |-> 0]]
    /\ chunks = [c \in Calls |-> <<>>]

NextConcurrent == \E c \in Calls : CallEnter(c) \/ CallLoop(c) \/ CallReturn(c)

SpecConcurrent == InitConcurrent /\ [][NextConcurrent]_vars

(***************************************************************************)
(* C20: concurrent calls do not interfere.  Whatever the interleaving,     *)
(* each call's accumulators are at every iteration what the call alone     *)
(* would have made of the sentences it has gone through, and its result is *)
(* the result of the call run alone.                                       *)
(***************************************************************************)
C20_ConcurrentCallsIndependent ==
    \A c \in Calls :
        /\ pc[c] = "loop" =>
             [chunks |-> chunks[c], current_chunk |-> loc[c].current_chunk,
              index |-> loc[c].index] =
                 SentenceFold([chunks |-> <<>>, current_chunk |-> <<>>, index |-> 0],
                              SubSeq(loc[c].units, 1, loc[c].i - 1), cfg[c].size)
        /\ pc[c] = "done" => chunks[c] = ChunkSentence(text[c], cfg[c].size)

\* the first call has returned two chunks while the second, on another text,
\* is inside its loop with a chunk pushed and a sentence in its buffer
C20_Witness ==
    /\ pc["first"] = "done"
    /\ Len(chunks["first"]) = 2
    /\ pc["second"] = "loop"
    /\ text["second"] # text["first"]
    /\ chunks["second"] # <<>>
    /\ loc["second"].current_chunk # <<>>


(***************************************************************************)
(* C21: FixedWindow makes progress.  For every input and every size and    *)
(* overlap (overlap >= size and size = 0 included) the start position is   *)
(* larger after every iteration that is followed by another one, and the   *)
(* loop ends: the call returns.                                            *)
(***************************************************************************)
C21_FixedForwardProgress ==
    /\ [][(strategy = "fixed" /\ pc = "loop" /\ pc' = "loop")
            => loc'.start > loc.start]_vars
    /\ <>(pc = "done")

\* a returned call with overlap >= size that took one iteration per character
C21_Witness ==
    /\ strategy = "fixed"
    /\ pc = "done"
    /\ cfg.size = 1
    /\ cfg.overlap = 3
    /\ Len(text) = 4
    /\ Len(chunks) = 4


(***************************************************************************)
(* C22: Semantic sends one embedding request per sentence, one at a time   *)
(* and in sentence order: request k carries sentence k, a request is sent  *)
(* only when every earlier one has completed or failed, and the embedding  *)
(* stored at position k is the answer to request k, or the zero vector     *)
(* when that request failed.  The grouping starts when every sentence has  *)
(* its embedding.                                                          *)
(***************************************************************************)
C22_OneRequestPerSentenceInOrder ==
    (strategy = "semantic" /\ loc # NotEntered) =>
        LET requests == loc.requests
            embeddings == loc.embeddings
        IN  /\ Len(requests) <= Len(loc.sentences)
            /\ \A k \in 1..Len(requests) :
                   /\ requests[k].prompt = loc.sentences[k]
                   /\ ~requests[k].completed <=>
                          (pc = "await" /\ k = Len(requests))
            /\ Len(embeddings) = Len(requests) - (IF pc = "await" THEN 1 ELSE 0)
            /\ \A k \in 1..Len(embeddings) :
                   embeddings[k] = IF requests[k].reply = None THEN ZeroVector
                                   ELSE requests[k].reply[1]
            /\ pc \in {"group", "done"} => Len(requests) = Len(loc.sentences)

\* the third request is awaited after a failed first and an answered second
C22_Witness ==
    /\ strategy = "semantic"
    /\ pc = "await"
    /\ Len(loc.requests) = 3
    /\ loc.requests[1].reply = None
    /\ loc.requests[2].reply = Some(<<3, 4>>)
    /\ loc.embeddings = <<ZeroVector, <<3, 4>>>>

\* the sentence numbers k whose similarity to sentence k - 1 is below the threshold
BoundaryPairs(embeddings, threshold) ==
    {k \in 2..Len(embeddings) :
        CosineSimilarity(embeddings[k - 1], embeddings[k]) < threshold}

\* the first sentence of the j-th run that the boundaries cuts delimit
RunStart(cuts, j) ==
    IF j = 1 THEN 1
    ELSE CHOOSE k \in cuts : Cardinality({c \in cuts : c <= k}) = j - 1

\* the last sentence of the j-th run of n sentences
RunEnd(cuts, j, n) ==
    IF j = Cardinality(cuts) + 1 THEN n ELSE RunStart(cuts, j + 1) - 1

(***************************************************************************)
(* C23: Semantic grouping.  A returned call on a text without sentences    *)
(* has no chunk.  Otherwise a boundary lies before sentence k exactly when *)
(* the similarity of sentences k - 1 and k is strictly below the           *)
(* threshold: there are 1 + (number of such pairs) chunks, and chunk j is  *)
(* the j-th run of consecutive sentences between boundaries, in order.     *)
(***************************************************************************)
C23_SemanticGrouping ==
    (strategy = "semantic" /\ pc = "done") =>
        IF UnicodeSentences(text) = <<>> THEN chunks = <<>>
        ELSE LET sentences == loc.sentences
                 cuts == BoundaryPairs(loc.embeddings, cfg.threshold)
             IN  /\ sentences = UnicodeSentences(text)
                 /\ Len(chunks) = 1 + Cardinality(cuts)
                 /\ \A j \in 1..Len(chunks) :
                        chunks[j].content =
                            JoinWith(SubSeq(sentences, RunStart(cuts, j),
                                            RunEnd(cuts, j, Len(sentences))),
                                     <<" ">>)

\* three sentences, the first two similar enough and the third not
C23_Witness ==
    /\ strategy = "semantic"
    /\ pc = "done"
    /\ loc # NotEntered
    /\ Len(loc.sentences) = 3
    /\ BoundaryPairs(loc.embeddings, cfg.threshold) = {3}
    /\ Len(chunks) = 2

(***************************************************************************)
(* C24: Semantic annotations.  A chunk closed by a drop of similarity      *)
(* carries the similarity of the pair (its last sentence, the next         *)
(* sentence) and the embedding of its last sentence; the final chunk       *)
(* carries no similarity and the embedding of the last sentence of the     *)
(* input.                                                                  *)
(***************************************************************************)
C24_SemanticAnnotations ==
    (strategy = "semantic" /\ pc = "done" /\ loc # NotEntered) =>
        LET embeddings == loc.embeddings
            n == Len(loc.sentences)
            cuts == BoundaryPairs(embeddings, cfg.threshold)
        IN  /\ chunks # <<>>
            /\ \A j \in 1..(Len(chunks) - 1) :
                   LET last == RunEnd(cuts, j, n)
                   IN  /\ chunks[j].similarity =
                              Some(CosineSimilarity(embeddings[last],
                                                    embeddings[last + 1]))
                       /\ chunks[j].embedding = Some(embeddings[last])
            /\ chunks[Len(chunks)].similarity = None
            /\ chunks[Len(chunks)].embedding = Some(embeddings[n])

\* two closed chunks with different similarities and a final chunk
C24_Witness ==
    /\ strategy = "semantic"
    /\ pc = "done"
    /\ Len(chunks) = 3
    /\ chunks[1].similarity = Some(0)
    /\ chunks[2].similarity = Some(60)
    /\ chunks[2].embedding = Some(<<1, 0>>)
    /\ chunks[3].embedding = Some(<<3, 4>>)


(***************************************************************************)
(* C25: Sentence and Paragraph accumulate greedily.  An iteration that     *)
(* adds a unit to an open (non-empty) chunk leaves a chunk that does not   *)
(* exceed target_size, so only a chunk of one unit can exceed it.          *)
(***************************************************************************)
C25_UnitAddedOnlyWithinTarget ==
    [][(/\ strategy \in {"sentence", "paragraph"}
        /\ pc = "loop" /\ pc' = "loop"
        /\ loc.current_chunk # <<>>
        /\ chunks' = chunks)
          => CharCount(loc'.current_chunk) <= cfg.size]_vars


\* the first and the last line of the range that a chunk's source names
FirstLine(chunk) == chunk.source[1][2]

LastLine(chunk) == chunk.source[1][3]

\* lines a..b of the input, each followed by a newline
LinesText(lines, a, b) ==
    IF a > b THEN <<>>
    ELSE JoinWith(SubSeq(lines, a, b), <<"\n">>) \o <<"\n">>

(***************************************************************************)
(* C26: Code flushes only on a boundary line and only when the size with   *)
(* that line exceeds target_size.  In the result of a returned call every  *)
(* chunk but the first starts with a boundary line that did not fit in the *)
(* chunk before it, an input without boundary line gives at most one       *)
(* chunk, the line ranges named in source follow one another from 1 to the *)
(* number of lines, and each chunk holds exactly the lines of its range.   *)
(***************************************************************************)
C26_CodeFlushesOnBoundaryOnly ==
    (strategy = "code" /\ pc = "done") =>
        LET lines == Lines(text)
            n == Len(chunks)
        IN  /\ (lines = <<>>) <=> (chunks = <<>>)
            /\ n > 0 => /\ FirstLine(chunks[1]) = 1
                        /\ LastLine(chunks[n]) = Len(lines)
            /\ \A j \in 1..n :
                   /\ FirstLine(chunks[j]) <= LastLine(chunks[j])
                   /\ chunks[j].content =
                          TrimEnd(LinesText(lines, FirstLine(chunks[j]),
                                            LastLine(chunks[j])))
            /\ \A j \in 2..n :
                   /\ FirstLine(chunks[j]) = LastLine(chunks[j - 1]) + 1
                   /\ IsBoundary(lines[FirstLine(chunks[j])])
                   /\ chunks[j - 1].size + ByteLen(lines[FirstLine(chunks[j])])
                          > cfg.size
            /\ (\A k \in 1..Len(lines) : ~IsBoundary(lines[k])) => n <= 1

\* a boundary line that fitted stays in the first chunk, the next one opens the second
C26_Witness ==
    /\ strategy = "code"
    /\ pc = "done"
    /\ Len(chunks) = 2
    /\ chunks[1].source = Some(<<"lines", 1, 2>>)
    /\ chunks[2].source = Some(<<"lines", 3, 3>>)
    /\ IsBoundary(Lines(text)[2])
    /\ ~IsBoundary(Lines(text)[1])


\* whether line k of a list-aware input lies in a list run: it is an item, or
\* it is blank or indented by two spaces and follows a line of a run
RECURSIVE InListRun(_, _)
InListRun(lines, k) ==
    LET line == lines[k]
        item == \/ BulletAtHead(TrimStart(line))
                \/ NumberAtHead(TrimStart(line))
    IN  \/ item
        \/ /\ k > 1
           /\ Trim(line) = <<>> \/ StartsWith(line, <<" ", " ">>)
           /\ InListRun(lines, k - 1)

\* whether line k of a table-aware input lies in a table run: it is a table
\* line, or it is blank and follows a line of a run
RECURSIVE InTableRun(_, _)
InTableRun(lines, k) ==
    \/ IsTableLine(lines[k])
    \/ /\ k > 1
       /\ Trim(lines[k]) = <<>>
       /\ InTableRun(lines, k - 1)

InRun(lines, k) ==
    IF strategy = "list-aware" THEN InListRun(lines, k) ELSE InTableRun(lines, k)

\* the chunk whose line range holds line k
ChunkOfLine(k) ==
    {j \in 1..Len(chunks) : FirstLine(chunks[j]) <= k /\ k <= LastLine(chunks[j])}

(***************************************************************************)
(* C27: ListAware and TableAware keep runs intact.  In the result of a     *)
(* returned call every chunk holds the lines of its range in input order,  *)
(* and two consecutive lines of one run (blank lines inside it included)   *)
(* lie in the same chunk, for every target size.                           *)
(***************************************************************************)
C27_RunsKeptIntact ==
    (strategy \in {"list-aware", "table-aware"} /\ pc = "done" /\ text # <<>>) =>
        LET lines == Lines(text)
        IN  /\ \A j \in 1..Len(chunks) :
                   chunks[j].content =
                       JoinWith(SubSeq(lines, FirstLine(chunks[j]),
                                       LastLine(chunks[j])), <<"\n">>)
            /\ \A k \in 2..Len(lines) :
                   (InRun(lines, k - 1) /\ InRun(lines, k)) =>
                       /\ ChunkOfLine(k) # {}
                       /\ ChunkOfLine(k - 1) = ChunkOfLine(k)

\* a list run of three lines with a blank line inside, kept in one chunk
\* larger than the target size
C27_Witness ==
    /\ strategy = "list-aware"
    /\ pc = "done"
    /\ Len(Lines(text)) = 3
    /\ Lines(text)[2] = <<>>
    /\ InListRun(Lines(text), 3)
    /\ Len(chunks) = 1
    /\ chunks[1].size > cfg.size


\* the byte offset in the input of line k of lines
LineOffset(lines, k) == LineSizes(SubSeq(lines, 1, k - 1))

(***************************************************************************)
(* C28: the offsets of Heading are safe and consistent.  No call aborts in *)
(* the computation of a chunk's start, and every chunk cut from the lines  *)
(* starts at the byte offset of its first line and does not end before it  *)
(* starts.                                                                 *)
(***************************************************************************)
C28_HeadingOffsetsSafe ==
    strategy = "heading-based" =>
        /\ pc # "panic"
        /\ \A j \in 1..Len(chunks) :
               (chunks[j].source # None /\ chunks[j].source[1][1] = "lines") =>
                   /\ chunks[j].start = LineOffset(Lines(text), FirstLine(chunks[j]))
                   /\ chunks[j].start <= chunks[j].end


\* a call of a line-based segmenter on a non-empty text with a configuration
\* that it can use
LineBasedCall ==
    /\ text # <<>>
    /\ \/ strategy = "heading-based" /\ HeadingLevels(cfg.heading_levels) # {}
       \/ strategy = "dialogue" /\ RegexCompiles(cfg.speaker_pattern)
       \/ strategy \in {"list-aware", "table-aware"}

(***************************************************************************)
(* C29: the line-based segmenters lose nothing.  A call of Heading (with a *)
(* valid level), Dialogue (with a pattern that compiles), ListAware or     *)
(* TableAware on a non-empty text returns, and the contents of its chunks  *)
(* joined by a newline in index order are the lines of the input joined by *)
(* a newline.                                                              *)
(***************************************************************************)
C29_LineBasedLoseNothing ==
    LineBasedCall =>
        /\ pc # "panic"
        /\ pc = "done" =>
               JoinWith(Contents(chunks), <<"\n">>) = JoinWith(Lines(text), <<"\n">>)

\* the same for the calls that return
C29_ReturnedLoseNothing ==
    (LineBasedCall /\ pc = "done") =>
        JoinWith(Contents(chunks), <<"\n">>) = JoinWith(Lines(text), <<"\n">>)


\* the characters of a text that are not whitespace, in order
NonWhitespace(t) == SelectSeq(t, LAMBDA c : ~IsWhitespace(c))

(***************************************************************************)
(* C30: Recursive loses no content.  For max_chunk_size >= 1 and every     *)
(* min_chunk_size the recursion ends, and the characters of the returned   *)
(* chunks that are not whitespace, taken in index order, are those of the  *)
(* input: no fragment is left out for being shorter than min_chunk_size.   *)
(***************************************************************************)
C30_RecursiveLosesNoContent ==
    (strategy = "recursive" /\ cfg.max_size >= 1) =>
        /\ pc # "overflow"
        /\ pc = "done" =>
               NonWhitespace(Flatten(Contents(chunks))) = NonWhitespace(text)

\* the same with min_chunk_size = 0, where the guard of the minimum is idle
C30_LosesNoContentWithoutMinimum ==
    (strategy = "recursive" /\ cfg.max_size >= 1 /\ cfg.min_size = 0) =>
        /\ pc # "overflow"
        /\ pc = "done" =>
               NonWhitespace(Flatten(Contents(chunks))) = NonWhitespace(text)


=============================================================================
